---- MODULE Spec2Model ----
(***************************************************************************)
(* Verbotic: document ingestion (process-document), similarity search      *)
(* (match_document_chunks) and the query handlers (rag-chat, chat-search,  *)
(* gemini-realtime), the chat page and the voice assistant, modelled from   *)
(* the edge functions, the migrations and the components.                  *)
(***************************************************************************)
EXTENDS Integers, Sequences, FiniteSets, TLC

VARIABLES
    documents,        \* table public.documents: id -> row
    document_chunks,  \* table public.document_chunks: set of rows
    storage,          \* bucket "documents": id -> length of the text the file yields
    task,             \* process-document requests: request -> handler state
    probe,            \* input and output of the chunking loop run on its own
    agents,           \* table public.agents: id -> row
    contexts,         \* table public.contexts: id -> row
    conversations,    \* table public.conversations: id -> row
    messages,         \* table public.messages: conversation id -> rows in creation order
    logs,             \* table logs: number of rows
    query,            \* one query request (rag-chat, chat-search or gemini-realtime)
    voice             \* the VoiceAssistant component: props, refs, sockets, timers

vars == <<documents, document_chunks, storage, task, probe,
          agents, contexts, conversations, messages, logs, query, voice>>

\* the state a query handler never writes except logs and its own locals
configVars == <<agents, contexts, conversations, messages, voice>>
queryVars == <<agents, contexts, conversations, messages, logs, query, voice>>

(***************************************************************************)
(* Bounds of the model.                                                    *)
(***************************************************************************)
NumDocs == 2
NumTasks == 2
MaxChunks == 3
MaxProbeLen == 2500
\* calls of connectToVoiceAssistant in one behaviour
MaxConnects == 4

(***************************************************************************)
(* Program constants.                                                      *)
(***************************************************************************)
chunkSize == 1000

DocIds == 1..NumDocs
Tasks == 1..NumTasks
Users == {"u1", "u2"}

\* request body document_id: a row of the table, an id with no row, or absent
NoId == 0
GoneId == NumDocs + 1
RequestIds == DocIds \cup {NoId, GoneId}

MimePlain == "text/plain"
MimeCsv == "text/csv"
MimeDocx == "application/vnd.openxmlformats-officedocument.wordprocessingml.document"
MimePdf == "application/pdf"
MimeOther == "application/octet-stream"

\* (mime_type, extension of file_path) of an uploaded document
DocTypes ==
    { <<MimePlain, ".txt">>, <<MimeCsv, ".csv">>, <<MimeDocx, ".docx">>,
      <<MimePdf, ".pdf">>, <<MimeOther, ".bin">>, <<MimeOther, ".pdf">> }

\* lengths of the text a stored file yields: empty, inside a chunk, on a
\* chunk boundary, one past it
TextLengths ==
    {0} \cup { k * chunkSize + r : k \in 0..(MaxChunks - 1), r \in {1, 500, chunkSize} }

NoError == "none"

Min(a, b) == IF a <= b THEN a ELSE b

(***************************************************************************)
(* Text and chunking.  A text of length L is the sequence of its character *)
(* positions; String.prototype.slice(s, e) clamps e to the length.         *)
(***************************************************************************)
Text(L) == [i \in 1..L |-> i]

SliceBoundsInclusive(L, s, e) == [lo |-> Min(s, L), hi |-> Min(e + 1, L)]

\* String.prototype.slice(s, e) on a string of length L, 0 <= s <= e: the
\* positions [lo, hi) it returns
SliceBounds(L, s, e) == [lo |-> Min(s, L), hi |-> Min(e, L)]

Slice(text, s, e) ==
    LET b == SliceBounds(Len(text), s, e) IN SubSeq(text, b.lo + 1, b.hi)

\* for (let i = 0; i < text.length; i += chunkSize): the values i takes
RECURSIVE ChunkStarts(_, _)
ChunkStarts(L, i) ==
    IF i < L THEN <<i>> \o ChunkStarts(L, i + chunkSize) ELSE <<>>

\* chunks.push(text.slice(i, i + chunkSize)) for each i
Chunker(text) ==
    LET starts == ChunkStarts(Len(text), 0)
    IN  [k \in 1..Len(starts) |-> Slice(text, starts[k], starts[k] + chunkSize)]

\* the same chunks as positions of the document's text
ChunkBounds(L) ==
    LET starts == ChunkStarts(L, 0)
    IN  [k \in 1..Len(starts) |-> SliceBounds(L, starts[k], starts[k] + chunkSize)]

\* Math.round((processedChunks / chunks.length) * 100)
ProgressOfRemaining(processed, total) ==
    (200 * (total - processed) + total) \div (2 * total)

Progress(processed, total) == (200 * processed + total) \div (2 * total)

(***************************************************************************)
(* Text extraction: the branch taken for (mime_type, file name).           *)
(***************************************************************************)
ExtractBranch(mime, ext) ==
    IF mime = MimePlain THEN "txt"
    ELSE IF mime = MimeCsv \/ ext = ".csv" THEN "csv"
    ELSE IF mime = MimeDocx \/ ext = ".docx" THEN "docx"
    ELSE IF mime = MimePdf \/ ext = ".pdf" THEN "pdf"
    ELSE "unknown"

\* the error thrown by the extraction step, NoError when it yields the text
ExtractError(branch, parsed, len) ==
    IF branch = "docx"
    THEN IF ~parsed THEN "Failed to parse DOCX: " \o "corrupt file"
         ELSE IF len = 0 THEN "Failed to parse DOCX: " \o "No text could be extracted from DOCX"
         ELSE NoError
    ELSE IF branch = "pdf"
    THEN IF ~parsed THEN "Failed to parse PDF: " \o "corrupt file"
         ELSE IF len = 0
              THEN "Failed to parse PDF: " \o
                   "No text could be extracted from PDF - the document may be image-based or encrypted"
         ELSE NoError
    ELSE NoError

\* OPENAI_API_KEY as the handler finds it in its environment
KeyStates == {"unset", "empty", "space", "newline", "valid"}

KeyError(key) ==
    IF key \in {"unset", "empty", "space"} THEN "OPENAI_API_KEY is not configured or is empty"
    ELSE IF key = "newline" THEN "OPENAI_API_KEY contains invalid characters"
    ELSE NoError

\* The embedding service is a function of the text it is given.  The texts
\* of the stored files are such that chunk k of document d embeds like this:
\* the first chunks of all documents embed alike, so do the second chunk of
\* document 1 and the third of document 2, and the cosine similarity of a
\* first chunk to <<1, 0, 0, 0>> is exactly 3/10.
EmbeddingOf(d, content) ==
    LET k == content.lo \div chunkSize
    IN  IF k = 0 THEN <<3, 9, 3, 1>>
        ELSE IF k = 1 THEN <<d, 1, 0, 0>>
        ELSE IF k = 2 THEN <<1, d - 1, 0, 0>>
        ELSE <<1, k, d, 0>>

\* embeddings the service returns for query texts
QueryVectors == { <<1, 0, 0, 0>>, <<0, 1, 0, 0>>, <<1, 1, 0, 0>> }

(***************************************************************************)
(* process-document.  A request's handler state holds the handler's        *)
(* locals (document_id, chunks, the loop position i, processedChunks, the  *)
(* caught error, the response) and a record of what its collaborators      *)
(* answered (download, parsed, textLen, key, embedCalls, skipped, broken,  *)
(* rejected, failWrite) and whether the request body was read (bodyUsed). *)
(***************************************************************************)
IdleTask ==
    [ pc |-> "idle", document_id |-> NoId, chunks |-> <<>>, i |-> 0,
      processedChunks |-> 0, error |-> NoError, response |-> [status |-> 0],
      download |-> "", parsed |-> TRUE, textLen |-> -1, key |-> "",
      embedCalls |-> 0, skipped |-> {}, broken |-> FALSE, rejected |-> 0,
      failWrite |-> "", document |-> [mime_type |-> "", ext |-> ""],
      bodyUsed |-> FALSE ]

\* throw new Error(msg): control passes to the catch block
Raise(r, msg) == [r EXCEPT !.pc = "catch", !.error = msg]

DocumentFoundAndUnprocessed(id) ==
    /\ id \in DOMAIN documents
    /\ \A c \in document_chunks : c.document_id # id

\* from("documents").select("*").eq("id", document_id).single(): the row is
\* looked up by id alone, whatever its status
DocumentFound(id) == id \in DOMAIN documents

\* req.json(), the document_id check and the documents lookup
Start(t, id) ==
    /\ task[t].pc = "idle"
    /\ IF id = NoId
       THEN task' = [task EXCEPT ![t] =
                       Raise([@ EXCEPT !.bodyUsed = TRUE], "document_id is required")]
       ELSE IF ~DocumentFound(id)
       THEN task' = [task EXCEPT ![t] =
                       Raise([@ EXCEPT !.document_id = id, !.bodyUsed = TRUE],
                             "Document not found")]
       ELSE task' = [task EXCEPT ![t].pc = "download", ![t].document_id = id,
                                 ![t].bodyUsed = TRUE,
                                 ![t].document = [mime_type |-> documents[id].mime_type,
                                                  ext |-> documents[id].ext]]
    /\ UNCHANGED <<documents, document_chunks, storage, probe, queryVars>>

\* supabase.storage.from("documents").download(document.file_path)
Download(t) ==
    /\ task[t].pc = "download"
    /\ \E outcome \in {"ok", "error", "empty"} :
         LET r == [task[t] EXCEPT !.download = outcome]
         IN  CASE outcome = "ok" -> task' = [task EXCEPT ![t] = [r EXCEPT !.pc = "extract"]]
               [] outcome = "error" ->
                    task' = [task EXCEPT ![t] =
                               Raise(r, "Failed to download document: " \o "Object not found")]
               [] outcome = "empty" ->
                    task' = [task EXCEPT ![t] = Raise(r, "File data is empty")]
    /\ UNCHANGED <<documents, document_chunks, storage, probe, queryVars>>

\* text extraction, the chunking loop and the OPENAI_API_KEY checks
Extract(t) ==
    /\ task[t].pc = "extract"
    /\ \E parsed \in BOOLEAN :
         LET d == task[t].document_id
             branch == ExtractBranch(task[t].document.mime_type, task[t].document.ext)
             libraryOk == parsed \/ branch \notin {"docx", "pdf"}
             err == ExtractError(branch, libraryOk, storage[d])
             r == [task[t] EXCEPT !.parsed = libraryOk,
                                  !.textLen = IF libraryOk THEN storage[d] ELSE -1]
         IN  IF err # NoError
             THEN task' = [task EXCEPT ![t] = Raise(r, err)]
             ELSE \E key \in KeyStates :
                    LET chunks == ChunkBounds(storage[d])
                        rk == [r EXCEPT !.chunks = chunks, !.key = key]
                    IN  IF KeyError(key) # NoError
                        THEN task' = [task EXCEPT ![t] = Raise(rk, KeyError(key))]
                        ELSE task' = [task EXCEPT ![t] =
                                        [rk EXCEPT !.i = 1,
                                                   !.pc = IF Len(chunks) = 0
                                                          THEN "complete" ELSE "embed"]]
    /\ UNCHANGED <<documents, document_chunks, storage, probe, queryVars>>

NextChunkLast(r) ==
    [r EXCEPT !.i = Len(r.chunks),
              !.pc = IF r.i = Len(r.chunks) THEN "complete" ELSE "embed"]

\* the end of one iteration of for (const chunk of chunks)
NextChunk(r) ==
    [r EXCEPT !.i = @ + 1, !.pc = IF r.i = Len(r.chunks) THEN "complete" ELSE "embed"]

SkipChunkAborts(r) == Raise(r, "Failed to generate embedding for chunk")

\* if (!embeddingResponse.ok) { console.error(...); continue; }
SkipChunk(r) == NextChunk(r)

\* fetch("https://api.openai.com/v1/embeddings") for chunk i, and reading its body
Embed(t) ==
    /\ task[t].pc = "embed"
    /\ \E outcome \in {"ok", "nonok", "neterr", "badbody"} :
         LET r == [task[t] EXCEPT !.embedCalls = @ + 1]
         IN  CASE outcome = "ok" -> task' = [task EXCEPT ![t] = [r EXCEPT !.pc = "insert"]]
               [] outcome = "nonok" ->
                    task' = [task EXCEPT ![t] =
                               SkipChunk([r EXCEPT !.skipped = @ \cup {r.i}])]
               [] outcome = "neterr" ->
                    task' = [task EXCEPT ![t] =
                               Raise([r EXCEPT !.broken = TRUE], "error sending request")]
               [] outcome = "badbody" ->
                    task' = [task EXCEPT ![t] =
                               Raise([r EXCEPT !.broken = TRUE], "Unexpected end of JSON input")]
    /\ UNCHANGED <<documents, document_chunks, storage, probe, queryVars>>

ChunkRowOneBased(r, t) ==
    [ document_id |-> r.document_id,
      content |-> r.chunks[r.i],
      embedding |-> EmbeddingOf(r.document_id, r.chunks[r.i]),
      chunk_index |-> r.i,
      by |-> t ]

\* the row the handler sends to document_chunks for chunk i; "by" records
\* the request that sent it
ChunkRow(r, t) ==
    [ document_id |-> r.document_id,
      content |-> r.chunks[r.i],
      embedding |-> EmbeddingOf(r.document_id, r.chunks[r.i]),
      chunk_index |-> r.processedChunks,
      by |-> t ]

InsertAcceptedUnchecked(id, storeOk) == storeOk

\* document_id UUID NOT NULL REFERENCES public.documents(id): the store
\* takes the row only if the document exists
InsertAccepted(id, storeOk) == storeOk /\ id \in DOMAIN documents

\* supabase.from("document_chunks").insert(...); processedChunks++
\* (the result of the insert is not inspected)
Insert(t) ==
    /\ task[t].pc = "insert"
    /\ \E accepted \in { InsertAccepted(task[t].document_id, storeOk) :
                          storeOk \in BOOLEAN } :
         /\ document_chunks' = IF accepted
                               THEN document_chunks \cup {ChunkRow(task[t], t)}
                               ELSE document_chunks
         /\ task' = [task EXCEPT ![t].pc = "progress",
                                 ![t].processedChunks = @ + 1,
                                 ![t].rejected = IF accepted THEN @ ELSE @ + 1]
    /\ UNCHANGED <<documents, storage, probe, queryVars>>

UpdateAllDocuments(id, fields) ==
    [d \in DOMAIN documents |->
       [f \in DOMAIN documents[d] |->
          IF f \in DOMAIN fields THEN fields[f] ELSE documents[d][f]]]

\* update(fields).eq("id", id): no row, no effect
UpdateDocument(id, fields) ==
    IF id \in DOMAIN documents
    THEN [documents EXCEPT ![id] = [f \in DOMAIN @ |->
                                      IF f \in DOMAIN fields THEN fields[f] ELSE @[f]]]
    ELSE documents

\* update({processing_progress}).eq("id", document_id), then the next chunk
UpdateProgress(t) ==
    /\ task[t].pc = "progress"
    /\ documents' = UpdateDocument(task[t].document_id,
                      [processing_progress |->
                         Progress(task[t].processedChunks, Len(task[t].chunks))])
    /\ task' = [task EXCEPT ![t] = NextChunk(@)]
    /\ UNCHANGED <<document_chunks, storage, probe, queryVars>>

\* update({status: "completed", processing_progress: 100}) and the success response
MarkCompleted(t) ==
    /\ task[t].pc = "complete"
    /\ documents' = UpdateDocument(task[t].document_id,
                      [status |-> "completed", processing_progress |-> 100])
    /\ task' = [task EXCEPT ![t].pc = "done",
                            ![t].response = [status |-> 200, success |-> TRUE,
                                             chunks_processed |-> task[t].processedChunks]]
    /\ UNCHANGED <<document_chunks, storage, probe, queryVars>>

FailedFieldsResetProgress(msg) ==
    [status |-> "failed", error_message |-> msg, processing_progress |-> 0]

FailedFieldsNoMessage(msg) == [status |-> "failed"]

\* { status: "failed", error_message: error.message }
FailedFields(msg) == [status |-> "failed", error_message |-> msg]

CatchResponseOfLastError(r, write) ==
    IF write = "ok" \/ r.document_id = NoId
    THEN [status |-> 500, error |-> r.error]
    ELSE [status |-> 500, error |-> "Failed to update document error status"]

\* the response of the catch block: the caught error's message, whatever
\* became of the update
CatchResponse(r, write) == [status |-> 500, error |-> r.error]

\* catch (error): the update when document_id is set (its error result is
\* not inspected, its exception is caught and logged), and the 500 response
MarkFailed(t) ==
    /\ task[t].pc = "catch"
    /\ \E write \in {"ok", "error", "throws"} :
         /\ documents' = IF task[t].document_id # NoId /\ write = "ok"
                         THEN UpdateDocument(task[t].document_id,
                                             FailedFields(task[t].error))
                         ELSE documents
         /\ task' = [task EXCEPT ![t].pc = "done",
                                 ![t].failWrite = IF task[t].document_id = NoId
                                                  THEN "" ELSE write,
                                 ![t].response = CatchResponse(task[t], write)]
    /\ UNCHANGED <<document_chunks, storage, probe, queryVars>>

(***************************************************************************)
(* The earlier process-document handler.  Its embedding loop, progress     *)
(* update and completion are those of the later version (Embed, Insert,    *)
(* UpdateProgress, MarkCompleted); the lookup, the download, the text      *)
(* extraction, the credential check and the catch block differ.            *)
(***************************************************************************)
\* text = "PDF processing would require pdf-parse library"
earlierPdfTextLen == 46

\* await req.json(): a body can be read once; a second read rejects
ReadJson(r) == IF r.bodyUsed THEN "throws" ELSE "ok"

\* what the server answers when the handler itself rejects
UnhandledResponse == [status |-> 500, error |-> "Internal Server Error"]

\* req.json(), the document_id check and the documents lookup
EarlierStart(t, id) ==
    /\ task[t].pc = "idle"
    /\ LET r == [task[t] EXCEPT !.bodyUsed = TRUE]
       IN  IF id = NoId
           THEN task' = [task EXCEPT ![t] = Raise(r, "document_id is required")]
           ELSE IF ~DocumentFound(id)
           THEN task' = [task EXCEPT ![t] =
                           Raise([r EXCEPT !.document_id = id], "Document not found")]
           ELSE task' = [task EXCEPT ![t] =
                           [r EXCEPT !.pc = "download", !.document_id = id,
                                     !.document = [mime_type |-> documents[id].mime_type,
                                                   ext |-> documents[id].ext]]]
    /\ UNCHANGED <<documents, document_chunks, storage, probe, queryVars>>

\* supabase.storage.from("documents").download(document.file_path)
EarlierDownload(t) ==
    /\ task[t].pc = "download"
    /\ \E outcome \in {"ok", "error", "empty"} :
         LET r == [task[t] EXCEPT !.download = outcome]
         IN  IF outcome = "ok"
             THEN task' = [task EXCEPT ![t] = [r EXCEPT !.pc = "extract"]]
             ELSE task' = [task EXCEPT ![t] = Raise(r, "Failed to download document")]
    /\ UNCHANGED <<documents, document_chunks, storage, probe, queryVars>>

\* the length of the text by mime type: the file's text, or the fixed
\* sentence for a PDF
EarlierTextLen(mime, fileLen) ==
    IF mime = MimePdf THEN earlierPdfTextLen ELSE fileLen

\* if (!OPENAI_API_KEY)
EarlierKeyError(key) ==
    IF key \in {"unset", "empty"} THEN "OPENAI_API_KEY is not configured" ELSE NoError

\* text extraction, the chunking loop and the OPENAI_API_KEY check
EarlierExtract(t) ==
    /\ task[t].pc = "extract"
    /\ \E key \in KeyStates :
         LET d == task[t].document_id
             len == EarlierTextLen(task[t].document.mime_type, storage[d])
             r == [task[t] EXCEPT !.textLen = len, !.chunks = ChunkBounds(len),
                                  !.key = key]
         IN  IF EarlierKeyError(key) # NoError
             THEN task' = [task EXCEPT ![t] = Raise(r, EarlierKeyError(key))]
             ELSE task' = [task EXCEPT ![t] =
                             [r EXCEPT !.i = 1,
                                       !.pc = IF Len(r.chunks) = 0
                                              THEN "complete" ELSE "embed"]]
    /\ UNCHANGED <<documents, document_chunks, storage, probe, queryVars>>

\* catch (error): const { document_id } = await req.json() comes first; when
\* it rejects, the update and the JSON response below it are not reached
EarlierCatch(t) ==
    /\ task[t].pc = "catch"
    /\ IF ReadJson(task[t]) = "throws"
       THEN /\ task' = [task EXCEPT ![t].pc = "done", ![t].response = UnhandledResponse]
            /\ UNCHANGED documents
       ELSE /\ documents' = IF task[t].document_id # NoId
                            THEN UpdateDocument(task[t].document_id,
                                                FailedFields(task[t].error))
                            ELSE documents
            /\ task' = [task EXCEPT ![t].pc = "done",
                                    ![t].failWrite = IF task[t].document_id = NoId
                                                     THEN "" ELSE "ok",
                                    ![t].response = [status |-> 500,
                                                     error |-> task[t].error]]
    /\ UNCHANGED <<document_chunks, storage, probe, queryVars>>

(***************************************************************************)
(* match_document_chunks.  similarity = 1 - (embedding <=> query_embedding) *)
(* is the cosine of the two vectors; it is kept exactly, as                *)
(* sgn(cos) * cos^2 in lowest terms, which orders as the cosine does.      *)
(***************************************************************************)
Range(f) == { f[x] : x \in DOMAIN f }

Dot(a, b) == a[1] * b[1] + a[2] * b[2] + a[3] * b[3] + a[4] * b[4]

RECURSIVE GCD(_, _)
GCD(a, b) == IF b = 0 THEN a ELSE GCD(b, a % b)

Abs(n) == IF n < 0 THEN -n ELSE n

Fraction(n, d) ==
    LET g == GCD(Abs(n), d) IN [num |-> n \div g, den |-> d \div g]

SignedSquare(n) == IF n < 0 THEN -(n * n) ELSE n * n

\* 1 - (a <=> b)
Similarity(a, b) == Fraction(SignedSquare(Dot(a, b)), Dot(a, a) * Dot(b, b))

\* a threshold t = num/den on the scale similarities are kept on
Scaled(t) == Fraction(SignedSquare(t.num), t.den * t.den)

Less(x, y) == x.num * y.den < y.num * x.den

\* match_threshold: 0.3, match_count: 5
match_threshold == [num |-> 3, den |-> 10]
match_count == 5

\* ORDER BY embedding <=> query_embedding: every order the database may
\* return the rows in (rows at the same distance come in any order)
RECURSIVE OrderByDistance(_)
OrderByDistance(rows) ==
    IF rows = {} THEN {<<>>}
    ELSE LET nearest == { r \in rows :
                            \A o \in rows : ~Less(r.similarity, o.similarity) }
         IN  UNION { { <<r>> \o rest : rest \in OrderByDistance(rows \ {r}) } :
                     r \in nearest }

LimitFromEnd(rows, n) == SubSeq(rows, Len(rows) - Min(n, Len(rows)) + 1, Len(rows))

\* LIMIT n
Limit(rows, n) == SubSeq(rows, 1, Min(n, Len(rows)))

MatchesAnyDocument(c, filter_document_ids) == TRUE

\* document_chunks.document_id = ANY(filter_document_ids)
MatchesDocument(c, filter_document_ids) == c.document_id \in Range(filter_document_ids)

PassesAtThreshold(similarity, threshold) == ~Less(similarity, Scaled(threshold))

\* 1 - (embedding <=> query_embedding) > match_threshold
PassesThreshold(similarity, threshold) == Less(Scaled(threshold), similarity)

\* the results the function may return: rows (id, document_id, content, similarity)
MatchDocumentChunks(query_embedding, threshold, count, filter_document_ids) ==
    LET selected ==
            { [ id |-> <<c.document_id, c.by, c.chunk_index>>,
                document_id |-> c.document_id,
                content |-> c.content,
                similarity |-> Similarity(c.embedding, query_embedding) ] :
              c \in { x \in document_chunks :
                        /\ MatchesDocument(x, filter_document_ids)
                        /\ PassesThreshold(Similarity(x.embedding, query_embedding),
                                           threshold) } }
    IN  { Limit(ordered, count) : ordered \in OrderByDistance(selected) }

(***************************************************************************)
(* Query handlers: the request, the handler's locals, the calls it made    *)
(* and its response.                                                       *)
(***************************************************************************)
AgentIds == {1}
ContextIds == {1}
NoPrompt == "null"
DefaultPrompt == "You are a helpful AI assistant."
NotFoundText ==
    "Die angefragte Information ist in den bereitgestellten Dokumenten nicht enthalten."

\* the conversations of user u1: with and without agent, context, rag_enabled
ConversationTable ==
    [ c \in 1..8 |->
        [ user_id |-> "u1",
          agent_id |-> IF (c - 1) % 2 = 1 THEN 1 ELSE NoId,
          context_id |-> IF ((c - 1) \div 2) % 2 = 1 THEN 1 ELSE NoId,
          rag_enabled |-> (c - 1) \div 4 = 0 ] ]

\* the messages stored for conversation c, oldest first: none, fewer than,
\* exactly and more than the history limit occur
StoredMessages(c) ==
    [ k \in 1..((4 * c) % 14) |->
        [ id |-> k, role |-> IF k % 2 = 1 THEN "user" ELSE "assistant" ] ]

MessageTable == [c \in DOMAIN ConversationTable |-> StoredMessages(c)]

\* .limit(10) of the conversation history
historyLimit == 10

\* .eq("conversation_id", id).order("created_at", { ascending: true }).limit(10)
ConversationHistory(conversation_id) ==
    IF conversation_id \in DOMAIN messages
    THEN Limit(messages[conversation_id], historyLimit)
    ELSE <<>>

UnknownConversation == Len(ConversationTable) + 1
RequestConversations == DOMAIN ConversationTable \cup {NoId, UnknownConversation}

\* who sends the request: a signed-in user, a token of no user, no header
Callers == Users \cup {"anon", "noheader"}

\* rag_enabled of a request body
RagFlags == {"absent", "true", "false"}

EmptyPrompt == [base |-> "", passages |-> <<>>, policy |-> "none"]

\* the chat page before a send: no conversation, no message sent
IdleClient ==
    [ pc |-> "idle", conversation_id |-> NoId, message_id |-> 0, rag_enabled |-> "absent" ]

IdleQuery ==
    [ pc |-> "idle", handler |-> "", caller |-> "", user_id |-> "", message |-> "",
      conversation_id |-> NoId, rag_enabled |-> "absent",
      systemPrompt |-> DefaultPrompt, ragEnabledForConversation |-> TRUE,
      documentIds |-> <<>>, key |-> "", query_embedding |-> <<>>,
      embedCalls |-> 0, embedding |-> "", searchCalls |-> 0, rpcError |-> FALSE,
      modelCalls |-> 0, completion |-> "",
      chunks |-> <<>>, fetched |-> {}, hasRelevantDocuments |-> FALSE,
      conversationHistory |-> <<>>, sent |-> <<>>, fallback |-> "",
      finalSystemPrompt |-> EmptyPrompt, response |-> [status |-> 0],
      client |-> IdleClient ]

\* catch (error): the 500 response
QueryError(q, msg) == [q EXCEPT !.pc = "done", !.response = [status |-> 500, error |-> msg]]

\* .select("id").eq("user_id", u).eq("status", "completed"): the rows
CompletedDocumentsOf(u) ==
    { d \in DOMAIN documents : documents[d].user_id = u /\ documents[d].status = "completed" }

\* the orders in which a query without ORDER BY may return the rows S
RECURSIVE AnyOrder(_)
AnyOrder(S) ==
    IF S = {} THEN {<<>>}
    ELSE UNION { { <<x>> \o rest : rest \in AnyOrder(S \ {x}) } : x \in S }

\* .order("created_at", { ascending: false }): ids are given in creation order
RECURSIVE NewestFirst(_)
NewestFirst(S) ==
    IF S = {} THEN <<>>
    ELSE LET m == CHOOSE x \in S : \A y \in S : y <= x
         IN  <<m>> \o NewestFirst(S \ {m})

\* .limit(100) of the user documents fallback (rag-chat), .limit(5) of the
\* voice fallback, .limit(100) of the voice chunk fetch
userDocsLimit == 100
voiceDocsLimit == 5
voiceChunksLimit == 100

\* what the embeddings endpoint may answer for the credential sent
EmbeddingOutcomes(key) ==
    IF key = "valid" THEN {"ok", "nonok", "neterr"} ELSE {"nonok", "neterr"}

RagChatResolveMerged(conversation, ragEnabled0) ==
    LET hasAgent == conversation.agent_id \in DOMAIN agents
        hasContext == conversation.context_id \in DOMAIN contexts
    IN  [ systemPrompt |-> IF hasAgent THEN agents[conversation.agent_id].system_prompt
                           ELSE DefaultPrompt,
          ragEnabledForConversation |->
              IF hasAgent THEN agents[conversation.agent_id].rag_enabled ELSE ragEnabled0,
          documentIds |->
              (IF hasAgent THEN agents[conversation.agent_id].document_ids ELSE <<>>)
              \o (IF hasContext THEN contexts[conversation.context_id].document_ids
                  ELSE <<>>) ]

RagChatResolveConversationFlag(conversation, ragEnabled0) ==
    LET hasAgent == conversation.agent_id \in DOMAIN agents
        prompt1 == IF hasAgent THEN agents[conversation.agent_id].system_prompt
                   ELSE DefaultPrompt
        docs1 == IF hasAgent THEN agents[conversation.agent_id].document_ids ELSE <<>>
        useContext == Len(docs1) = 0 /\ ragEnabled0
                      /\ conversation.context_id \in DOMAIN contexts
    IN  [ systemPrompt |->
              IF useContext /\ contexts[conversation.context_id].system_prompt # NoPrompt
              THEN contexts[conversation.context_id].system_prompt ELSE prompt1,
          ragEnabledForConversation |-> ragEnabled0,
          documentIds |->
              IF useContext THEN contexts[conversation.context_id].document_ids ELSE docs1 ]

\* rag-chat, "Get agent if specified" and "If no agent documents, use
\* context documents": the locals after the conversation was found
RagChatResolve(conversation, ragEnabled0) ==
    LET hasAgent == conversation.agent_id \in DOMAIN agents
        prompt1 == IF hasAgent THEN agents[conversation.agent_id].system_prompt
                   ELSE DefaultPrompt
        rag1 == IF hasAgent THEN agents[conversation.agent_id].rag_enabled ELSE ragEnabled0
        docs1 == IF hasAgent THEN agents[conversation.agent_id].document_ids ELSE <<>>
        useContext == Len(docs1) = 0 /\ rag1 /\ conversation.context_id \in DOMAIN contexts
    IN  [ systemPrompt |->
              IF useContext /\ contexts[conversation.context_id].system_prompt # NoPrompt
              THEN contexts[conversation.context_id].system_prompt ELSE prompt1,
          ragEnabledForConversation |-> rag1,
          documentIds |->
              IF useContext THEN contexts[conversation.context_id].document_ids ELSE docs1 ]

\* rag-chat: body, logs insert, auth, knowledge source resolution, the user
\* documents fallback (the history query follows)
RagChatStart(caller, message, conversation_id, rag_enabled) ==
    /\ query.pc = "idle"
    /\ LET q0 == [query EXCEPT !.handler = "rag-chat", !.caller = caller,
                               !.message = message, !.conversation_id = conversation_id,
                               !.rag_enabled = rag_enabled]
       IN  IF message = ""
           THEN query' = QueryError(q0, "Message is required") /\ logs' = logs
           ELSE
             /\ logs' = logs + 1
             /\ IF caller = "noheader"
                THEN query' = QueryError(q0, "Cannot read properties of null")
                ELSE IF caller = "anon"
                THEN query' = QueryError(q0, "Unauthorized")
                ELSE
                  LET found == conversation_id \in DOMAIN conversations
                      res == IF found
                             THEN RagChatResolve(conversations[conversation_id],
                                                 conversations[conversation_id].rag_enabled)
                             ELSE [ systemPrompt |-> DefaultPrompt,
                                    \* rag_enabled ?? true
                                    ragEnabledForConversation |-> rag_enabled # "false",
                                    documentIds |-> <<>> ]
                      q1 == [q0 EXCEPT !.pc = "retrieve",
                                       !.conversationHistory =
                                           ConversationHistory(conversation_id),
                                       !.systemPrompt = res.systemPrompt,
                                       !.ragEnabledForConversation =
                                           res.ragEnabledForConversation,
                                       !.documentIds = res.documentIds]
                  IN  IF res.ragEnabledForConversation /\ Len(res.documentIds) = 0
                      THEN \E userDocsOk \in BOOLEAN :
                             \E ids \in IF userDocsOk
                                        THEN { Limit(o, userDocsLimit) :
                                               o \in AnyOrder(CompletedDocumentsOf(caller)) }
                                        ELSE {<<>>} :
                               query' = [q1 EXCEPT !.documentIds = ids,
                                                   !.fallback = IF userDocsOk THEN "ok"
                                                                ELSE "error"]
                      ELSE query' = q1
    /\ UNCHANGED <<documents, document_chunks, storage, task, probe, configVars>>

ShouldRetrieveWithDocuments(q) == Len(q.documentIds) > 0

\* if (ragEnabledForConversation && documentIds.length > 0)
ShouldRetrieve(q) == q.ragEnabledForConversation /\ Len(q.documentIds) > 0

\* rag-chat: the query embedding and the similarity search
RagChatRetrieve ==
    /\ query.pc = "retrieve" /\ query.handler = "rag-chat"
    /\ \E key \in KeyStates :
         LET q1 == [query EXCEPT !.key = key, !.pc = "answer"]
         IN  IF ShouldRetrieve(query) /\ key \notin {"unset", "empty"}
             THEN \E outcome \in EmbeddingOutcomes(key) :
                    LET q2 == [q1 EXCEPT !.embedCalls = @ + 1, !.embedding = outcome]
                    IN  CASE outcome = "neterr" ->
                               query' = QueryError(q2, "error sending request")
                          [] outcome = "nonok" -> query' = q2
                          [] outcome = "ok" ->
                               \E v \in QueryVectors, rpcOk \in BOOLEAN :
                                 \E rows \in IF rpcOk
                                             THEN MatchDocumentChunks(v, match_threshold,
                                                      match_count, query.documentIds)
                                             ELSE {<<>>} :
                                   query' = [q2 EXCEPT !.query_embedding = v,
                                                       !.searchCalls = @ + 1,
                                                       !.rpcError = ~rpcOk,
                                                       !.chunks = rows,
                                                       !.hasRelevantDocuments = Len(rows) > 0]
             ELSE query' = q1
    /\ UNCHANGED <<documents, document_chunks, storage, task, probe, configVars, logs>>

ShortCircuitNever(q) == FALSE

ShortCircuitWithoutDocuments(q) ==
    q.ragEnabledForConversation /\ ~q.hasRelevantDocuments

\* RAG is enabled and documents exist, but no relevant chunks found
ShortCircuit(q) ==
    q.ragEnabledForConversation /\ ~q.hasRelevantDocuments /\ Len(q.documentIds) > 0

\* messages: the system message, the history, the new user message
ChatMessages(q, prompt) ==
    <<[role |-> "system", content |-> prompt]>>
    \o [i \in 1..Len(q.conversationHistory) |->
          [role |-> q.conversationHistory[i].role,
           content |-> q.conversationHistory[i].id]]
    \o <<[role |-> "user", content |-> q.message]>>

FinalSystemPromptFirstPassage(q) ==
    [ base |-> q.systemPrompt,
      passages |-> IF q.ragEnabledForConversation /\ q.hasRelevantDocuments
                   THEN <<q.chunks[1].content>> ELSE <<>>,
      policy |-> IF ~q.ragEnabledForConversation THEN "rag-disabled"
                 ELSE IF q.hasRelevantDocuments THEN "documents-only"
                 ELSE "no-documents" ]

\* finalSystemPrompt: the prompt layer, the passages, and which closing text
FinalSystemPrompt(q) ==
    [ base |-> q.systemPrompt,
      passages |-> IF q.ragEnabledForConversation /\ q.hasRelevantDocuments
                   THEN [i \in 1..Len(q.chunks) |-> q.chunks[i].content] ELSE <<>>,
      policy |-> IF ~q.ragEnabledForConversation THEN "rag-disabled"
                 ELSE IF q.hasRelevantDocuments THEN "documents-only"
                 ELSE "no-documents" ]

\* rag-chat: the final system prompt or the fixed answer, the credential
\* check, the chat completion and the response
RagChatAnswer ==
    /\ query.pc = "answer" /\ query.handler = "rag-chat"
    /\ IF ShortCircuit(query)
       THEN query' = [query EXCEPT !.pc = "done",
                                   !.response = [status |-> 200, response |-> NotFoundText,
                                                 rag_used |-> TRUE]]
       ELSE LET q1 == [query EXCEPT !.finalSystemPrompt = FinalSystemPrompt(query)]
            IN  IF query.key \in {"unset", "empty"}
                THEN query' = QueryError(q1, "OPENAI_API_KEY is not configured")
                ELSE \E outcome \in EmbeddingOutcomes(query.key) :
                       LET q2 == [q1 EXCEPT !.modelCalls = @ + 1, !.completion = outcome,
                                            !.sent = ChatMessages(query,
                                                        FinalSystemPrompt(query))]
                       IN  CASE outcome = "neterr" ->
                                  query' = QueryError(q2, "error sending request")
                             [] outcome = "nonok" ->
                                  query' = QueryError(q2, "OpenAI API error: 401")
                             [] outcome = "ok" ->
                                  query' = [q2 EXCEPT
                                     !.pc = "done",
                                     !.response =
                                        [status |-> 200, response |-> "assistant message",
                                         \* ragEnabledForConversation && relevantContext !== ""
                                         rag_used |-> query.ragEnabledForConversation
                                                      /\ query.hasRelevantDocuments]]
    /\ UNCHANGED <<documents, document_chunks, storage, task, probe, configVars, logs>>

\* chat-search: body, the completed documents of body.user_id; the handler
\* never reads who the caller is
ChatSearchStart(caller, user_id, search_query) ==
    /\ query.pc = "idle"
    /\ LET q0 == [query EXCEPT !.handler = "chat-search", !.caller = caller,
                               !.user_id = user_id, !.message = search_query]
       IN  IF user_id = "" \/ search_query = ""
           THEN query' = QueryError(q0, "user_id and search_query are required")
           ELSE \E docsOk \in BOOLEAN :
                  IF ~docsOk
                  THEN query' = QueryError(q0, "Failed to fetch user documents")
                  ELSE \E ids \in AnyOrder(CompletedDocumentsOf(user_id)) :
                         IF Len(ids) = 0
                         THEN query' = [q0 EXCEPT !.pc = "done",
                                           !.response = [status |-> 200, results |-> <<>>]]
                         ELSE query' = [q0 EXCEPT !.pc = "retrieve", !.documentIds = ids]
    /\ UNCHANGED <<documents, document_chunks, storage, task, probe, configVars, logs>>

\* chat-search: credential check, query embedding, similarity search, results
ChatSearchRetrieve ==
    /\ query.pc = "retrieve" /\ query.handler = "chat-search"
    /\ \E key \in KeyStates :
         LET q1 == [query EXCEPT !.key = key]
         IN  IF key \in {"unset", "empty"}
             THEN query' = QueryError(q1, "OPENAI_API_KEY is not configured")
             ELSE \E outcome \in EmbeddingOutcomes(key) :
                    LET q2 == [q1 EXCEPT !.embedCalls = @ + 1, !.embedding = outcome]
                    IN  CASE outcome = "neterr" ->
                               query' = QueryError(q2, "error sending request")
                          [] outcome = "nonok" ->
                               query' = QueryError(q2, "Failed to generate embedding: 401")
                          [] outcome = "ok" ->
                               \E v \in QueryVectors, rpcOk \in BOOLEAN :
                                 LET q3 == [q2 EXCEPT !.query_embedding = v,
                                                      !.searchCalls = @ + 1,
                                                      !.rpcError = ~rpcOk]
                                 IN  IF ~rpcOk
                                     THEN query' = QueryError(q3, "Vector search failed")
                                     ELSE \E rows \in MatchDocumentChunks(v, match_threshold,
                                                         match_count, query.documentIds) :
                                            query' = [q3 EXCEPT
                                               !.pc = "done",
                                               !.chunks = rows,
                                               !.response =
                                                  [status |-> 200,
                                                   results |->
                                                     [i \in 1..Len(rows) |->
                                                        [content |-> rows[i].content,
                                                         score |-> rows[i].similarity]]]]
    /\ UNCHANGED <<documents, document_chunks, storage, task, probe, configVars, logs>>

\* gemini-realtime: documentIds = [...documentIds, ...agent.document_ids] and
\* then [...documentIds, ...context.document_ids]
AgentAndContextDocuments(conversation) ==
    (IF conversation.agent_id \in DOMAIN agents
     THEN agents[conversation.agent_id].document_ids ELSE <<>>)
    \o (IF conversation.context_id \in DOMAIN contexts
        THEN contexts[conversation.context_id].document_ids ELSE <<>>)

VoicePrompt == "You are a helpful assistant and answer in a friendly tone."

\* gemini-realtime: optional auth, body, the documents of agent and context,
\* the newest completed documents of the user when there are none
VoiceStart(caller, conversation_id, rag_enabled) ==
    /\ query.pc = "idle"
    /\ LET q0 == [query EXCEPT !.handler = "gemini-realtime", !.caller = caller,
                               !.conversation_id = conversation_id,
                               !.rag_enabled = rag_enabled, !.pc = "fetch",
                               !.systemPrompt = VoicePrompt,
                               !.ragEnabledForConversation = FALSE]
       IN  IF rag_enabled = "true" /\ caller \in Users
           THEN LET found == conversation_id \in DOMAIN conversations
                    ids == IF found
                           THEN AgentAndContextDocuments(conversations[conversation_id])
                           ELSE <<>>
                    prompt == IF found /\ conversations[conversation_id].agent_id
                                              \in DOMAIN agents
                              THEN agents[conversations[conversation_id].agent_id]
                                      .system_prompt
                              ELSE VoicePrompt
                    q1 == [q0 EXCEPT !.ragEnabledForConversation = TRUE,
                                     !.systemPrompt = prompt]
                IN  IF Len(ids) = 0
                    THEN \E userDocsOk \in BOOLEAN :
                           query' = [q1 EXCEPT !.documentIds =
                                        IF userDocsOk
                                        THEN Limit(NewestFirst(CompletedDocumentsOf(caller)),
                                                   voiceDocsLimit)
                                        ELSE <<>>,
                                               !.fallback = IF userDocsOk THEN "ok"
                                                            ELSE "error"]
                    ELSE query' = [q1 EXCEPT !.documentIds = ids]
           ELSE query' = q0
    /\ UNCHANGED <<documents, document_chunks, storage, task, probe, configVars, logs>>

\* .in("document_id", documentIds).limit(n): the row sets it may return
ChunksOfDocuments(ids, n) ==
    LET rows == { c \in document_chunks : c.document_id \in Range(ids) }
    IN  IF Cardinality(rows) <= n THEN {rows}
        ELSE { S \in SUBSET rows : Cardinality(S) = n }

\* gemini-realtime: the chunk fetch, the system instruction, the credential
\* check and the response
VoiceAnswer ==
    /\ query.pc = "fetch" /\ query.handler = "gemini-realtime"
    /\ \E chunksOk \in BOOLEAN, keySet \in BOOLEAN :
         \E rows \in IF query.ragEnabledForConversation /\ Len(query.documentIds) > 0
                        /\ chunksOk
                     THEN ChunksOfDocuments(query.documentIds, voiceChunksLimit)
                     ELSE {{}} :
           LET fetchRan == query.ragEnabledForConversation /\ Len(query.documentIds) > 0
               prompt == [ base |-> query.systemPrompt,
                           passages |-> <<>>,
                           policy |-> IF ~fetchRan \/ ~chunksOk THEN "none"
                                      ELSE IF rows # {} THEN "knowledge-base"
                                      ELSE "knowledge-base-empty" ]
               q1 == [query EXCEPT !.fetched = rows, !.finalSystemPrompt = prompt,
                                   !.searchCalls = IF fetchRan THEN 1 ELSE 0,
                                   !.rpcError = fetchRan /\ ~chunksOk,
                                   !.key = IF keySet THEN "valid" ELSE "unset"]
           IN  IF ~keySet
               THEN query' = QueryError(q1, "GEMINI_API_KEY not configured")
               ELSE query' = [q1 EXCEPT !.pc = "done",
                                 !.response = [status |-> 200,
                                               system_instruction |-> prompt]]
    /\ UNCHANGED <<documents, document_chunks, storage, task, probe, configVars, logs>>

(***************************************************************************)
(* The VoiceAssistant component.  voice holds the prop isOpen of the       *)
(* latest render, the state isConnected, the refs (wsRef,                  *)
(* reconnectTimeoutRef, reconnectAttemptsRef), the calls of                *)
(* connectToVoiceAssistant that wait for the microphone or the backend     *)
(* config (pending), every WebSocket created, every timeout not yet fired  *)
(* or cleared, and a record of the last callback (last, lastCode).  A call *)
(* of connectToVoiceAssistant is only made by a render or a timer whose    *)
(* isOpen is true, and its callbacks keep that value (the field isOpen of  *)
(* a socket and of a timer).                                               *)
(***************************************************************************)
maxReconnectAttempts == 3

ClosedVoice ==
    [ isOpen |-> FALSE, isConnected |-> FALSE, pending |-> 0, started |-> 0,
      sockets |-> <<>>, wsRef |-> 0, timers |-> {}, reconnectTimeoutRef |-> 0,
      scheduled |-> 0, reconnectAttempts |-> 0, last |-> "mount", lastCode |-> 0 ]

\* wsRef.current.close(1000, "User disconnected"): a socket that is still
\* connecting is failed, an open one starts the closing handshake
CloseSocket(ws) ==
    IF ws.readyState = "connecting" THEN [ws EXCEPT !.readyState = "closing", !.failed = TRUE]
    ELSE IF ws.readyState = "open" THEN [ws EXCEPT !.readyState = "closing"]
    ELSE ws

\* the codes a close event of the socket can carry: 1006 when the
\* connection fails or is lost, 1000 when the closing handshake completes
CloseCodes(ws) ==
    IF ws.readyState = "connecting" \/ ws.failed THEN {1006} ELSE {1000, 1006}

\* disconnect()
Disconnect(v) ==
    LET v1 == IF v.reconnectTimeoutRef # 0
              THEN [v EXCEPT !.timers = { tm \in @ : tm.id # v.reconnectTimeoutRef },
                             !.reconnectTimeoutRef = 0]
              ELSE v
        v2 == IF v1.wsRef # 0
              THEN [v1 EXCEPT !.sockets[v1.wsRef] = CloseSocket(@), !.wsRef = 0]
              ELSE v1
    IN  [v2 EXCEPT !.isConnected = FALSE, !.reconnectAttempts = 0]

\* connectToVoiceAssistant() up to its first await
StartConnect(v) == [v EXCEPT !.pending = @ + 1, !.started = @ + 1]

\* the parent opens the assistant: the cleanup of the previous effect runs
\* disconnect(), then the effect connects if (isOpen && !isConnected), with
\* the isConnected of this render
VoiceOpen ==
    /\ ~voice.isOpen
    /\ voice.isConnected \/ voice.started < MaxConnects
    /\ voice' = LET v == [Disconnect(voice) EXCEPT !.isOpen = TRUE, !.last = "VoiceOpen"]
                IN  IF ~voice.isConnected THEN StartConnect(v) ELSE v
    /\ UNCHANGED <<documents, document_chunks, storage, task, probe, agents, contexts,
                   conversations, messages, logs, query>>

\* handleClose: disconnect(), onClose(); the parent sets isOpen to false and
\* the cleanup of the effect runs disconnect() again
VoiceClose ==
    /\ voice.isOpen
    /\ voice' = [Disconnect(Disconnect(voice)) EXCEPT !.isOpen = FALSE,
                                                      !.last = "VoiceClose"]
    /\ UNCHANGED <<documents, document_chunks, storage, task, probe, agents, contexts,
                   conversations, messages, logs, query>>

\* connectToVoiceAssistant() after getUserMedia and the gemini-realtime
\* call: an error ends in the catch block, otherwise
\* wsRef.current = new WebSocket(geminiWsUrl)
VoiceConnect ==
    /\ voice.pending > 0
    /\ \E ok \in BOOLEAN :
         voice' = IF ok
                  THEN [voice EXCEPT !.pending = @ - 1,
                                     !.sockets = Append(@, [readyState |-> "connecting",
                                                            failed |-> FALSE,
                                                            isOpen |-> TRUE]),
                                     !.wsRef = Len(voice.sockets) + 1,
                                     !.last = "VoiceConnect"]
                  ELSE [voice EXCEPT !.pending = @ - 1, !.last = "VoiceConnectError"]
    /\ UNCHANGED <<documents, document_chunks, storage, task, probe, agents, contexts,
                   conversations, messages, logs, query>>

\* onopen of socket ws
VoiceOnOpen(ws) ==
    /\ voice.sockets[ws].readyState = "connecting"
    /\ voice' = [voice EXCEPT !.sockets[ws].readyState = "open",
                              !.isConnected = TRUE,
                              !.reconnectAttempts = 0,
                              !.last = "VoiceOnOpen"]
    /\ UNCHANGED <<documents, document_chunks, storage, task, probe, agents, contexts,
                   conversations, messages, logs, query>>

ShouldReconnectInclusive(code, attempts, isOpen) ==
    code # 1000 /\ attempts <= maxReconnectAttempts /\ isOpen

\* event.code !== 1000 && reconnectAttemptsRef.current < maxReconnectAttempts && isOpen
ShouldReconnect(code, attempts, isOpen) ==
    code # 1000 /\ attempts < maxReconnectAttempts /\ isOpen

\* onclose of socket ws with event.code = code
VoiceOnClose(ws, code) ==
    /\ voice.sockets[ws].readyState # "closed"
    /\ code \in CloseCodes(voice.sockets[ws])
    /\ LET v == [voice EXCEPT !.sockets[ws].readyState = "closed",
                              !.isConnected = FALSE,
                              !.last = "VoiceOnClose", !.lastCode = code]
       IN  voice' = IF ShouldReconnect(code, voice.reconnectAttempts,
                                       voice.sockets[ws].isOpen)
                    THEN [v EXCEPT !.reconnectAttempts = @ + 1,
                                   !.scheduled = @ + 1,
                                   !.timers = @ \cup {[id |-> voice.scheduled + 1,
                                                       isOpen |-> voice.sockets[ws].isOpen]},
                                   !.reconnectTimeoutRef = voice.scheduled + 1]
                    ELSE v
    /\ UNCHANGED <<documents, document_chunks, storage, task, probe, agents, contexts,
                   conversations, messages, logs, query>>

\* the timeout of a scheduled reconnection fires:
\* if (isOpen) connectToVoiceAssistant()
VoiceTimer(tm) ==
    /\ tm \in voice.timers
    /\ voice.started < MaxConnects
    /\ voice' = LET v == [voice EXCEPT !.timers = @ \ {tm}, !.last = "VoiceTimer"]
                IN  IF tm.isOpen THEN StartConnect(v) ELSE v
    /\ UNCHANGED <<documents, document_chunks, storage, task, probe, agents, contexts,
                   conversations, messages, logs, query>>

(***************************************************************************)
(* Initial states.  A document row is created by the upload with the       *)
(* column defaults: status 'processing', processing_progress 0, no         *)
(* error_message.                                                          *)
(***************************************************************************)
OwnerOf(d) == IF d = 1 THEN "u1" ELSE "u2"

NewDocument(d, ty) ==
    [ user_id |-> OwnerOf(d), mime_type |-> ty[1], ext |-> ty[2],
      status |-> "processing", processing_progress |-> 0, error_message |-> NoError ]

OffTask == [IdleTask EXCEPT !.pc = "off"]

IdleProbe == [len |-> 0, chunks |-> <<>>, done |-> FALSE]

NewAgent(ragEnabled, ids) ==
    [ user_id |-> "u1", system_prompt |-> "agent prompt", rag_enabled |-> ragEnabled,
      document_ids |-> ids ]

NewContext(prompt, ids) ==
    [ user_id |-> "u1", system_prompt |-> prompt, document_ids |-> ids ]

\* no query request is made
QuietQuery ==
    /\ agents = [a \in AgentIds |-> NewAgent(TRUE, <<>>)]
    /\ contexts = [c \in ContextIds |-> NewContext(NoPrompt, <<>>)]
    /\ conversations = ConversationTable
    /\ messages = MessageTable
    /\ logs = 0
    /\ query = [IdleQuery EXCEPT !.pc = "off"]
    /\ voice = ClosedVoice

AgentDocLists == {<<>>, <<1>>, <<NumDocs, 1>>}
ContextDocLists == {<<>>, <<NumDocs>>}
ContextPrompts == {NoPrompt, "context prompt"}

\* a document whose ingestion is still running, has failed after its first
\* chunk, or has completed
DocProfiles == {"processing", "failed", "completed"}
StoredLen == MaxChunks * chunkSize - 500

ProfileDocument(d, profile, owner) ==
    [NewDocument(d, <<MimePlain, "txt">>) EXCEPT
        !.user_id = owner,
        !.status = profile,
        !.processing_progress = IF profile = "completed" THEN 100
                                ELSE IF profile = "failed" THEN Progress(1, MaxChunks)
                                ELSE 0,
        !.error_message = IF profile = "failed" THEN "error sending request" ELSE @]

ProfileChunks(d, profile) ==
    LET bounds == ChunkBounds(StoredLen)
        n == IF profile = "completed" THEN Len(bounds)
             ELSE IF profile = "failed" THEN 1 ELSE 0
    IN  { [ document_id |-> d, content |-> bounds[i],
            embedding |-> EmbeddingOf(d, bounds[i]), chunk_index |-> i - 1, by |-> 1 ]
          : i \in 1..n }

\* one query request against ingested documents
InitQuery ==
    /\ \E profile \in [DocIds -> DocProfiles], owner \in Users :
         /\ profile[NumDocs] # "failed"
         /\ documents = [d \in DocIds |->
                           ProfileDocument(d, profile[d], IF d = 1 THEN OwnerOf(d) ELSE owner)]
         /\ document_chunks = UNION { ProfileChunks(d, profile[d]) : d \in DocIds }
    /\ storage = [d \in DocIds |-> StoredLen]
    /\ task = [t \in Tasks |-> OffTask]
    /\ probe = IdleProbe
    /\ \E ragEnabled \in BOOLEAN, ids \in AgentDocLists :
         agents = [a \in AgentIds |-> NewAgent(ragEnabled, ids)]
    /\ \E prompt \in ContextPrompts, ids \in ContextDocLists :
         contexts = [c \in ContextIds |-> NewContext(prompt, ids)]
    /\ conversations = ConversationTable
    /\ messages = MessageTable
    /\ logs = 0
    /\ query = IdleQuery
    /\ voice = ClosedVoice

NextQuery ==
    \/ \E caller \in Callers, message \in {"", "question"},
          conversation_id \in RequestConversations, rag_enabled \in RagFlags :
         RagChatStart(caller, message, conversation_id, rag_enabled)
    \/ RagChatRetrieve
    \/ RagChatAnswer
    \/ \E caller \in Callers, user_id \in Users \cup {""},
          search_query \in {"", "question"} :
         ChatSearchStart(caller, user_id, search_query)
    \/ ChatSearchRetrieve
    \/ \E caller \in Callers, conversation_id \in RequestConversations,
          rag_enabled \in RagFlags :
         VoiceStart(caller, conversation_id, rag_enabled)
    \/ VoiceAnswer

SpecQuery == InitQuery /\ [][NextQuery]_vars

(***************************************************************************)
(* The chat page.  handleSend stores the user message, updates the         *)
(* conversation's settings and invokes rag-chat; when the answer arrives   *)
(* it stores the assistant message.  query.client holds the page's         *)
(* position, its conversation and the id of the message row it inserted.   *)
(***************************************************************************)
\* Chat.createConversation: the new row of the signed-in user
NewConversation(selectedAgentId, ragEnabled) ==
    [ user_id |-> "u1", agent_id |-> selectedAgentId, context_id |-> NoId,
      rag_enabled |-> ragEnabled ]

\* Chat.updateConversationSettings: update({agent_id, rag_enabled}).eq("id", convId)
UpdateConversationSettings(table, convId, selectedAgentId, ragEnabled) ==
    [table EXCEPT ![convId].agent_id = selectedAgentId, ![convId].rag_enabled = ragEnabled]

\* Chat.handleSend up to the call of rag-chat: the conversation is created
\* when the page has none, the user message is inserted, the settings are
\* updated (a failed update is only logged)
HandleSend(conversationId, selectedAgentId, ragEnabled) ==
    /\ query.pc = "idle" /\ query.client.pc = "idle"
    /\ \E created \in BOOLEAN, inserted \in BOOLEAN, updated \in BOOLEAN :
         LET isNew == conversationId = NoId
             currentConvId == IF isNew THEN Len(conversations) + 1 ELSE conversationId
             conversations1 ==
                 IF isNew THEN Append(conversations,
                                      NewConversation(selectedAgentId, ragEnabled))
                 ELSE conversations
             messages1 == IF isNew THEN Append(messages, <<>>) ELSE messages
             message_id == Len(messages1[currentConvId]) + 1
         IN  IF isNew /\ ~created
             THEN /\ query' = [query EXCEPT !.client.pc = "failed"]
                  /\ UNCHANGED <<conversations, messages>>
             ELSE IF ~inserted
             THEN /\ query' = [query EXCEPT !.client.pc = "failed",
                                            !.client.conversation_id = currentConvId]
                  /\ conversations' = conversations1
                  /\ messages' = messages1
             ELSE /\ query' = [query EXCEPT
                                 !.client = [pc |-> "invoke",
                                             conversation_id |-> currentConvId,
                                             message_id |-> message_id,
                                             rag_enabled |-> IF ragEnabled THEN "true"
                                                             ELSE "false"]]
                  /\ messages' = [messages1 EXCEPT ![currentConvId] =
                                     Append(@, [id |-> message_id, role |-> "user"])]
                  /\ conversations' =
                       IF updated
                       THEN UpdateConversationSettings(conversations1, currentConvId,
                                                       selectedAgentId, ragEnabled)
                       ELSE conversations1
    /\ UNCHANGED <<documents, document_chunks, storage, task, probe, agents, contexts,
                   logs, voice>>

\* supabase.functions.invoke("rag-chat", { body: { message, conversation_id,
\* rag_enabled } }) with the session of the signed-in user
HandleSendInvoke ==
    /\ query.client.pc = "invoke"
    /\ RagChatStart("u1", "question", query.client.conversation_id,
                    query.client.rag_enabled)

\* Chat.handleSend after the call: an error is thrown on, an answer is
\* inserted as the assistant message
HandleSendStore ==
    /\ query.client.pc = "invoke" /\ query.handler = "rag-chat" /\ query.pc = "done"
    /\ IF query.response.status # 200
       THEN /\ query' = [query EXCEPT !.client.pc = "failed"]
            /\ UNCHANGED messages
       ELSE \E inserted \in BOOLEAN :
              /\ query' = [query EXCEPT !.client.pc = IF inserted THEN "done" ELSE "failed"]
              /\ messages' =
                   IF inserted
                   THEN [messages EXCEPT ![query.client.conversation_id] =
                           Append(@, [id |-> Len(@) + 1, role |-> "assistant"])]
                   ELSE messages
    /\ UNCHANGED <<documents, document_chunks, storage, task, probe, agents, contexts,
                   conversations, logs, voice>>

InitChat == InitQuery

NextChat ==
    \/ \E conversationId \in DOMAIN ConversationTable \cup {NoId},
          selectedAgentId \in AgentIds \cup {NoId}, ragEnabled \in BOOLEAN :
         HandleSend(conversationId, selectedAgentId, ragEnabled)
    \/ HandleSendInvoke
    \/ RagChatRetrieve
    \/ RagChatAnswer
    \/ HandleSendStore

SpecChat == InitChat /\ [][NextChat]_vars

\* one ingestion request; document 1 is of any type and length
InitIngest ==
    /\ \E ty \in DocTypes :
         documents = [d \in DocIds |->
                        NewDocument(d, IF d = 1 THEN ty ELSE <<MimePlain, ".txt">>)]
    /\ \E L \in TextLengths :
         storage = [d \in DocIds |-> IF d = 1 THEN L ELSE chunkSize + 500]
    /\ document_chunks = {}
    /\ task = [t \in Tasks |-> IF t = 1 THEN IdleTask ELSE OffTask]
    /\ probe = IdleProbe
    /\ QuietQuery

Next ==
    \/ \E t \in Tasks, id \in RequestIds : Start(t, id)
    \/ \E t \in Tasks : Download(t)
    \/ \E t \in Tasks : Extract(t)
    \/ \E t \in Tasks : Embed(t)
    \/ \E t \in Tasks : Insert(t)
    \/ \E t \in Tasks : UpdateProgress(t)
    \/ \E t \in Tasks : MarkCompleted(t)
    \/ \E t \in Tasks : MarkFailed(t)

SpecIngest == InitIngest /\ [][Next]_vars

\* DocumentList.handleDelete: delete().eq("id", id) under the policy
\* auth.uid() = user_id; the chunks go with the row (ON DELETE CASCADE)
DeleteDocument(caller, id) ==
    /\ \E ok \in BOOLEAN :
         IF ok /\ id \in DOMAIN documents /\ documents[id].user_id = caller
         THEN /\ documents' = [d \in DOMAIN documents \ {id} |-> documents[d]]
              /\ document_chunks' = { c \in document_chunks : c.document_id # id }
         ELSE UNCHANGED <<documents, document_chunks>>
    /\ UNCHANGED <<storage, task, probe, queryVars>>

\* two ingestion requests, for the same document or not, and deletions
InitLifecycle ==
    /\ documents = [d \in DocIds |-> NewDocument(d, <<MimePlain, ".txt">>)]
    /\ storage = [d \in DocIds |-> chunkSize + 500]
    /\ document_chunks = {}
    /\ task = [t \in Tasks |-> IF t <= 2 THEN IdleTask ELSE OffTask]
    /\ probe = IdleProbe
    /\ QuietQuery

NextLifecycle ==
    \/ Next
    \/ \E caller \in Users, id \in DocIds : DeleteDocument(caller, id)

SpecLifecycle == InitLifecycle /\ [][NextLifecycle]_vars

\* the document library of InitQuery, with its agents and contexts, and
\* deletions by the owners
InitLibrary == InitQuery

NextLibrary == \E caller \in Users, id \in DocIds : DeleteDocument(caller, id)

SpecLibrary == InitLibrary /\ [][NextLibrary]_vars

\* the mounted, closed voice assistant
InitVoice ==
    /\ documents = [d \in DocIds |-> NewDocument(d, <<MimePlain, ".txt">>)]
    /\ storage = [d \in DocIds |-> chunkSize + 500]
    /\ document_chunks = {}
    /\ task = [t \in Tasks |-> OffTask]
    /\ probe = IdleProbe
    /\ QuietQuery

NextVoice ==
    \/ VoiceOpen
    \/ VoiceClose
    \/ VoiceConnect
    \/ \E ws \in DOMAIN voice.sockets : VoiceOnOpen(ws)
    \/ \E ws \in DOMAIN voice.sockets, code \in {1000, 1006} : VoiceOnClose(ws, code)
    \/ \E tm \in voice.timers : VoiceTimer(tm)

SpecVoice == InitVoice /\ [][NextVoice]_vars

\* one request to the earlier handler
InitEarlier == InitIngest

NextEarlier ==
    \/ \E t \in Tasks, id \in RequestIds : EarlierStart(t, id)
    \/ \E t \in Tasks : EarlierDownload(t)
    \/ \E t \in Tasks : EarlierExtract(t)
    \/ \E t \in Tasks : Embed(t)
    \/ \E t \in Tasks : Insert(t)
    \/ \E t \in Tasks : UpdateProgress(t)
    \/ \E t \in Tasks : MarkCompleted(t)
    \/ \E t \in Tasks : EarlierCatch(t)

SpecEarlier == InitEarlier /\ [][NextEarlier]_vars

(***************************************************************************)
(* The chunking loop on its own, on a text of any length up to             *)
(* MaxProbeLen.                                                            *)
(***************************************************************************)
InitChunker ==
    /\ documents = [d \in DocIds |-> NewDocument(d, <<MimePlain, ".txt">>)]
    /\ storage = [d \in DocIds |-> 0]
    /\ document_chunks = {}
    /\ task = [t \in Tasks |-> OffTask]
    /\ \E L \in 0..MaxProbeLen : probe = [IdleProbe EXCEPT !.len = L]
    /\ QuietQuery

RunChunker ==
    /\ ~probe.done
    /\ probe' = [probe EXCEPT !.chunks = Chunker(Text(probe.len)), !.done = TRUE]
    /\ UNCHANGED <<documents, document_chunks, storage, task, queryVars>>

NextChunker == RunChunker

SpecChunker == InitChunker /\ [][NextChunker]_vars

(***************************************************************************)
(* Properties.                                                             *)
(***************************************************************************)
Ceil(a, b) == (a + b - 1) \div b

RECURSIVE Concat(_)
Concat(ss) == IF ss = <<>> THEN <<>> ELSE Head(ss) \o Concat(Tail(ss))

RowsBy(t) == { c \in document_chunks : c.by = t }

BranchOf(d) == ExtractBranch(documents[d].mime_type, documents[d].ext)

\* C4: for every declared file type, an ingestion whose extracted text is
\* empty ends with the document failed, never completed.  (Refuted: for
\* text/plain, text/csv and unknown types the handler marks it completed.)
C4_EmptyTextEndsFailed ==
    \A t \in Tasks :
        (task[t].pc = "done" /\ task[t].document_id \in DocIds /\ task[t].textLen = 0)
            => documents[task[t].document_id].status = "failed"

\* C5: an ingestion of N chunks in which the embedding service answers
\* non-OK for the chunks of a non-empty set F (and nothing else goes wrong)
\* ends with status completed and processing_progress 100, and exactly the
\* N - |F| other chunks are persisted.
C5_NonOkEmbeddingsAreSkipped ==
    \A t \in Tasks :
        LET r == task[t]
            N == Len(r.chunks)
        IN  (r.pc = "done" /\ r.document_id \in DocIds /\ r.key = "valid" /\ N >= 1
               /\ r.skipped # {} /\ ~r.broken /\ r.rejected = 0)
            => /\ documents[r.document_id].status = "completed"
               /\ documents[r.document_id].processing_progress = 100
               /\ Cardinality(RowsBy(t)) = N - Cardinality(r.skipped)
               /\ { c.content : c \in RowsBy(t) }
                    = { r.chunks[k] : k \in (1..N) \ r.skipped }

C5_Witness ==
    \E t \in Tasks :
        /\ task[t].pc = "done"
        /\ Len(task[t].chunks) = 3
        /\ task[t].skipped = {1, 3}
        /\ ~task[t].broken /\ task[t].rejected = 0
        /\ documents[task[t].document_id].status = "completed"
        /\ Cardinality(RowsBy(t)) = 1

\* C6: for a text of length L the chunker yields ceil(L / 1000) segments,
\* segment k being the characters (k-1)*1000+1 .. min(k*1000, L): in order,
\* without overlap, none empty, none longer than 1000, and their
\* concatenation is the text.
C6_ChunkerPartitionsText ==
    probe.done =>
        LET L == probe.len
            cs == probe.chunks
        IN  /\ Len(cs) = Ceil(L, chunkSize)
            /\ \A k \in 1..Len(cs) :
                 /\ Len(cs[k]) >= 1 /\ Len(cs[k]) <= chunkSize
                 /\ cs[k] = SubSeq(Text(L), (k - 1) * chunkSize + 1, Min(k * chunkSize, L))
            /\ Concat(cs) = Text(L)

C6_Witness ==
    /\ probe.done /\ probe.len = 2500
    /\ Len(probe.chunks) = 3 /\ Len(probe.chunks[3]) = 500

\* C9: when the document is found, the download succeeds, the text is not
\* empty, the credential is valid, every embedding call is OK and every
\* insert is accepted, the ingestion of a text of length L ends with status
\* completed, progress 100, exactly ceil(L / 1000) rows with chunk_index
\* 0..n-1 in document order, and chunks_processed = n.
C9_HappyPath ==
    \A t \in Tasks :
        LET r == task[t]
            d == r.document_id
            L == storage[d]
            n == Ceil(L, chunkSize)
        IN  (r.pc = "done" /\ d \in DocIds /\ r.download = "ok" /\ r.parsed
               /\ r.textLen > 0 /\ r.key = "valid" /\ r.skipped = {} /\ ~r.broken
               /\ r.rejected = 0)
            => /\ documents[d].status = "completed"
               /\ documents[d].processing_progress = 100
               /\ RowsBy(t) =
                    { [ document_id |-> d,
                        content |-> [lo |-> k * chunkSize, hi |-> Min((k + 1) * chunkSize, L)],
                        embedding |-> EmbeddingOf(d, [lo |-> k * chunkSize,
                                                      hi |-> Min((k + 1) * chunkSize, L)]),
                        chunk_index |-> k, by |-> t ] : k \in 0..(n - 1) }
               /\ r.response = [status |-> 200, success |-> TRUE, chunks_processed |-> n]

C9_Witness ==
    \E t \in Tasks :
        /\ task[t].pc = "done" /\ task[t].document_id \in DocIds
        /\ storage[task[t].document_id] = 2500
        /\ documents[task[t].document_id].status = "completed"
        /\ documents[task[t].document_id].processing_progress = 100
        /\ { c.chunk_index : c \in RowsBy(t) } = {0, 1, 2}
        /\ task[t].response.status = 200 /\ task[t].response.chunks_processed = 3

\* the message of the error the handler throws for what its collaborators
\* answered, NoError when none of these errors occurs
UnrecoverableError(r, branch) ==
    IF r.download = "error" THEN "Failed to download document: Object not found"
    ELSE IF r.download = "empty" THEN "File data is empty"
    ELSE IF r.download = "ok" /\ branch = "docx" /\ ~r.parsed
    THEN "Failed to parse DOCX: corrupt file"
    ELSE IF r.download = "ok" /\ branch = "docx" /\ r.textLen = 0
    THEN "Failed to parse DOCX: No text could be extracted from DOCX"
    ELSE IF r.download = "ok" /\ branch = "pdf" /\ ~r.parsed
    THEN "Failed to parse PDF: corrupt file"
    ELSE IF r.download = "ok" /\ branch = "pdf" /\ r.textLen = 0
    THEN "Failed to parse PDF: No text could be extracted from PDF - the document may be image-based or encrypted"
    ELSE IF r.key \in {"unset", "empty", "space"}
    THEN "OPENAI_API_KEY is not configured or is empty"
    ELSE IF r.key = "newline" THEN "OPENAI_API_KEY contains invalid characters"
    ELSE NoError

\* C10: a download failure, an extraction failure for docx/pdf, or a missing
\* or malformed embedding credential, for an existing document whose
\* failure update reaches the row, ends the
\* ingestion with status failed and error_message the message of the error
\* thrown; for a missing or malformed credential no embedding call is made
\* and no chunk is persisted.
C10_UnrecoverableErrorsMarkFailed ==
    \A t \in Tasks :
        LET r == task[t]
            d == r.document_id
            msg == UnrecoverableError(r, BranchOf(d))
        IN  (r.pc = "done" /\ d \in DocIds /\ msg # NoError /\ r.failWrite = "ok")
            => /\ documents[d].status = "failed"
               /\ documents[d].error_message = msg
               /\ r.error = msg
               /\ (r.key \in {"unset", "empty", "space", "newline"}
                     => r.embedCalls = 0 /\ RowsBy(t) = {})

C10_Witness ==
    \E t \in Tasks :
        /\ task[t].pc = "done" /\ task[t].document_id \in DocIds
        /\ task[t].failWrite = "ok"
        /\ task[t].key = "unset"
        /\ task[t].textLen = 2500
        /\ documents[task[t].document_id].status = "failed"
        /\ documents[task[t].document_id].error_message
             = "OPENAI_API_KEY is not configured or is empty"
        /\ task[t].embedCalls = 0 /\ RowsBy(t) = {}

\* C11: when the ingestion fails and the update recording status failed
\* itself fails (an error result or an exception), nothing propagates: the
\* request is still answered with status 500 and the message of the
\* original error, and the document keeps the status it had.
C11_FailureWriteIsBestEffort ==
    \A t \in Tasks :
        (task[t].pc = "done" /\ task[t].failWrite \in {"error", "throws"})
            => /\ task[t].response = [status |-> 500, error |-> task[t].error]
               /\ task[t].error # NoError
               /\ task[t].document_id \in DocIds
                    => documents[task[t].document_id].status = "processing"

\* a download error whose failure update throws
C11_Witness ==
    \E t \in Tasks :
        /\ task[t].pc = "done" /\ task[t].document_id \in DocIds
        /\ task[t].failWrite = "throws"
        /\ task[t].download = "error"
        /\ task[t].response.status = 500
        /\ task[t].response.error = "Failed to download document: Object not found"
        /\ documents[task[t].document_id].status = "processing"

(***************************************************************************)
(* Retrieval properties.                                                   *)
(***************************************************************************)
\* rag-chat got past authentication and resolved its knowledge source
Resolved ==
    /\ query.handler = "rag-chat" /\ query.pc \in {"retrieve", "answer", "done"}
    /\ query.caller \in Users /\ query.message # ""

AboveThreshold(similarity) == Less(Scaled(match_threshold), similarity)

\* the stored chunk a result row was made of
StoredAs(r) ==
    { c \in document_chunks :
        /\ c.document_id = r.document_id /\ c.content = r.content
        /\ <<c.document_id, c.by, c.chunk_index>> = r.id }

\* C1: on every query path (rag-chat search, chat-search, the voice context
\* fetch) each chunk returned, injected into the prompt or sent in the
\* results is a stored chunk whose document_id is in the document ids the
\* request resolved; nothing of a document outside that set is returned.
C1_OnlyResolvedDocuments ==
    /\ \A i \in 1..Len(query.chunks) :
         /\ query.chunks[i].document_id \in Range(query.documentIds)
         /\ StoredAs(query.chunks[i]) # {}
    /\ \A c \in query.fetched :
         c \in document_chunks /\ c.document_id \in Range(query.documentIds)
    /\ Len(query.finalSystemPrompt.passages) \in {0, Len(query.chunks)}
    /\ \A i \in 1..Len(query.finalSystemPrompt.passages) :
         query.finalSystemPrompt.passages[i] = query.chunks[i].content
    /\ (query.handler = "chat-search" /\ query.response.status = 200)
         => /\ Len(query.response.results) = Len(query.chunks)
            /\ \A i \in 1..Len(query.chunks) :
                 query.response.results[i].content = query.chunks[i].content

\* rag-chat injected passages while a chunk of a document outside the
\* resolved set passed the threshold for the same query embedding
C1_Witness ==
    /\ Resolved /\ query.pc = "done" /\ query.response.status = 200
    /\ Len(query.finalSystemPrompt.passages) > 0
    /\ \E c \in document_chunks :
         /\ c.document_id \notin Range(query.documentIds)
         /\ AboveThreshold(Similarity(c.embedding, query.query_embedding))

\* the agent and the context the conversation of the request is bound to
BoundAgent == agents[conversations[query.conversation_id].agent_id]
BoundContext == contexts[conversations[query.conversation_id].context_id]

AgentAndContextBound ==
    /\ Resolved
    /\ query.conversation_id \in DOMAIN conversations
    /\ conversations[query.conversation_id].agent_id \in DOMAIN agents
    /\ conversations[query.conversation_id].context_id \in DOMAIN contexts
    /\ BoundAgent.document_ids # <<>>
    /\ BoundContext.document_ids # <<>>
    /\ Range(BoundContext.document_ids) # Range(BoundAgent.document_ids)

\* C2: in rag-chat, when the conversation is bound to an agent with
\* non-empty document_ids and to a context with a different non-empty set,
\* the resolved document ids are exactly the agent's document_ids.
C2_AgentDocumentsWin ==
    AgentAndContextBound => query.documentIds = BoundAgent.document_ids

\* such a request was answered from the agent's documents only, while the
\* context names a document the agent does not
C2_Witness ==
    /\ AgentAndContextBound
    /\ query.pc = "done" /\ query.response.status = 200
    /\ BoundAgent.rag_enabled
    /\ query.documentIds = BoundAgent.document_ids
    /\ \E d \in Range(BoundContext.document_ids) : d \notin Range(query.documentIds)
    /\ Len(query.chunks) > 0

\* the similarity search ran for the request and returned no row
SearchFoundNothing ==
    /\ Resolved /\ query.pc = "done"
    /\ query.ragEnabledForConversation /\ Len(query.documentIds) > 0
    /\ query.searchCalls = 1 /\ ~query.rpcError /\ Len(query.chunks) = 0

\* C3: in rag-chat, when RAG is enabled, the resolved document ids are
\* non-empty and the search returns no chunk above the threshold, the
\* response is the fixed not-found string with status 200 and the chat
\* completion is never requested.
C3_NoMatchShortCircuits ==
    SearchFoundNothing
      => /\ query.response.status = 200
         /\ query.response.response = NotFoundText
         /\ query.modelCalls = 0

\* the resolved documents have chunks, none of them above the threshold
C3_Witness ==
    /\ SearchFoundNothing
    /\ query.response.response = NotFoundText
    /\ \E c \in document_chunks : c.document_id \in Range(query.documentIds)
    /\ \A c \in document_chunks :
         c.document_id \in Range(query.documentIds)
           => ~AboveThreshold(Similarity(c.embedding, query.query_embedding))

\* each result row carries the similarity of its stored chunk to the query,
\* and that similarity is strictly greater than match_threshold
ResultsAboveThreshold ==
    \A i \in 1..Len(query.chunks) :
      /\ \A c \in StoredAs(query.chunks[i]) :
           query.chunks[i].similarity = Similarity(c.embedding, query.query_embedding)
      /\ AboveThreshold(query.chunks[i].similarity)

\* C7 as stated: the result list is ordered by strictly descending
\* similarity and every result is strictly above match_threshold.
C7_StrictlyDescending ==
    /\ ResultsAboveThreshold
    /\ \A i, j \in 1..Len(query.chunks) :
         i < j => Less(query.chunks[j].similarity, query.chunks[i].similarity)

\* C7: the result list is ordered by descending similarity, rows of equal
\* similarity in any order, and every result is strictly above
\* match_threshold (a chunk at exactly the threshold is excluded).
C7_DescendingAboveThreshold ==
    /\ ResultsAboveThreshold
    /\ \A i, j \in 1..Len(query.chunks) :
         i < j => ~Less(query.chunks[i].similarity, query.chunks[j].similarity)

\* two results of equal similarity, and a chunk of a resolved document at
\* exactly the threshold that is not among the results
C7_Witness ==
    /\ query.pc = "done" /\ Len(query.chunks) >= 2
    /\ \E i \in 1..(Len(query.chunks) - 1) :
         query.chunks[i].similarity = query.chunks[i + 1].similarity
    /\ \E c \in document_chunks :
         /\ c.document_id \in Range(query.documentIds)
         /\ Similarity(c.embedding, query.query_embedding) = Scaled(match_threshold)
         /\ \A i \in 1..Len(query.chunks) : c \notin StoredAs(query.chunks[i])

\* C8: in rag-chat, when the effective rag_enabled flag is false, the query
\* embedding and the similarity search are never requested; with the
\* OpenAI credential configured the chat completion is requested with the
\* system prompt ending in the RAG-is-disabled text, and the response of a
\* successful completion reports rag_used = false.
C8_RagDisabledSkipsRetrieval ==
    (Resolved /\ ~query.ragEnabledForConversation)
      => /\ query.embedCalls = 0 /\ query.searchCalls = 0
         /\ Len(query.chunks) = 0
         /\ query.pc = "done"
              => /\ query.key \notin {"unset", "empty"}
                   => /\ query.modelCalls = 1
                      /\ query.finalSystemPrompt =
                           [ base |-> query.systemPrompt, passages |-> <<>>,
                             policy |-> "rag-disabled" ]
                 /\ query.response.status = 200 => query.response.rag_used = FALSE

\* an agent with documents and RAG switched off was answered without
\* retrieval
C8_Witness ==
    /\ Resolved /\ ~query.ragEnabledForConversation /\ query.pc = "done"
    /\ Len(query.documentIds) > 0
    /\ query.embedCalls = 0 /\ query.searchCalls = 0 /\ query.modelCalls = 1
    /\ query.finalSystemPrompt.policy = "rag-disabled"
    /\ query.response.status = 200 /\ query.response.rag_used = FALSE

\* the query embedding was due (rag-chat: RAG enabled and documents
\* resolved; chat-search: always) and the service answered non-OK or the
\* credential is not set
QueryEmbeddingFailed ==
    /\ query.pc = "done" /\ query.key # ""
    /\ \/ Resolved /\ query.ragEnabledForConversation /\ Len(query.documentIds) > 0
       \/ query.handler = "chat-search"
    /\ query.embedding = "nonok" \/ query.key \in {"unset", "empty"}

\* C12: when embedding the query text fails (non-OK answer or credential
\* not set) while RAG is enabled and documents are resolved, the request is
\* answered with an error, never with a success response.  (Refuted for
\* rag-chat, which answers 200 with the fixed not-found text.)
C12_QueryEmbeddingFailureIsError ==
    QueryEmbeddingFailed => query.response.status = 500

\* a similarity-search error, a non-OK chat completion, a missing message
\* or an unauthenticated caller, in rag-chat or chat-search
QueryErrorOccurred ==
    /\ query.pc = "done" /\ query.handler \in {"rag-chat", "chat-search"}
    /\ \/ query.rpcError
       \/ query.completion = "nonok"
       \/ query.message = ""
       \/ query.handler = "rag-chat" /\ query.caller \in {"anon", "noheader"}

\* C13: every request of rag-chat or chat-search in which a query-time
\* error occurred is answered with status 500 and an error message, never
\* with a success response.  (Refuted: rag-chat logs the search error and
\* answers 200.)
C13_QueryErrorsAreSurfaced ==
    QueryErrorOccurred
      => query.response.status = 500 /\ "error" \in DOMAIN query.response

\* the n newest rows of a list kept oldest first, still oldest first
LastN(rows, n) == SubSeq(rows, Len(rows) - Min(n, Len(rows)) + 1, Len(rows))

StoredHistory ==
    IF query.conversation_id \in DOMAIN messages
    THEN messages[query.conversation_id] ELSE <<>>

\* C14: whenever rag-chat requests the chat completion, the messages are
\* the system message, then the 10 newest messages of the conversation in
\* chronological order, then the new user message.  (Refuted: for a
\* conversation of more than 10 messages the handler sends the 10 oldest.)
C14_HistoryIsTheNewestTen ==
    (Resolved /\ query.modelCalls = 1)
      => /\ Len(query.sent) = Min(Len(StoredHistory), historyLimit) + 2
         /\ query.sent[1] = [role |-> "system", content |-> query.finalSystemPrompt]
         /\ query.sent[Len(query.sent)] = [role |-> "user", content |-> query.message]
         /\ \A i \in 1..(Len(query.sent) - 2) :
              LET m == LastN(StoredHistory, historyLimit)[i]
              IN  query.sent[i + 1] = [role |-> m.role, content |-> m.id]

\* the cap of the user documents fallback of the handler of the request
FallbackCap ==
    IF query.handler = "rag-chat" THEN userDocsLimit ELSE voiceDocsLimit

\* C15: when RAG is enabled and neither agent nor context yields documents,
\* the resolved documents are the caller's own completed documents, most
\* recent first, capped at 100 (rag-chat) or 5 (gemini-realtime).
\* (Refuted for rag-chat, whose query has no ORDER BY.)
C15_FallbackIsNewestCompletedOwn ==
    query.fallback = "ok"
      => query.documentIds
           = Limit(NewestFirst(CompletedDocumentsOf(query.caller)), FallbackCap)

\* the chunks whose content a successfully answered request returned or put
\* into a prompt: the search results (rag-chat, chat-search) and the rows
\* fetched for the voice session
DisclosedDocuments ==
    IF query.pc = "done" /\ query.response.status = 200
    THEN { query.chunks[i].document_id : i \in 1..Len(query.chunks) }
         \cup { c.document_id : c \in query.fetched }
    ELSE {}

\* C16: no query operation returns or injects into a prompt the content of
\* a chunk whose document is owned by a user other than the authenticated
\* caller, whatever conversation_id or user_id the request carries.
\* (Refuted: chat-search trusts body.user_id, and rag-chat and
\* gemini-realtime read any conversation with the service role.)
C16_OnlyOwnDocumentsDisclosed ==
    \A d \in DisclosedDocuments : documents[d].user_id = query.caller

(***************************************************************************)
(* Ingestion properties: chunk order, embedding failures, deletion,        *)
(* status transitions.                                                     *)
(***************************************************************************)
\* C18: every persisted chunk's chunk_index is the zero-based position of
\* its segment in the chunker's output, also when earlier segments were
\* skipped.  (Refuted: chunk_index is the count of chunks stored so far.)
C18_ChunkIndexIsSegmentPosition ==
    \A c \in document_chunks : c.chunk_index = c.content.lo \div chunkSize

\* an embedding call of the request failed: a non-OK answer, a network
\* error or an unreadable body
EmbeddingCallFailed(r) ==
    /\ r.pc = "done" /\ r.document_id \in DocIds
    /\ r.download = "ok" /\ r.parsed /\ r.key = "valid" /\ Len(r.chunks) >= 1
    /\ r.skipped # {} \/ r.broken

\* C19: the failure of an embedding call in any form never aborts the
\* ingestion: every chunk is still attempted and the document ends
\* completed.  (Refuted: only a non-OK answer is skipped; an exception of
\* fetch or of reading the body ends the ingestion with status failed.)
C19_EmbeddingFailureNeverAborts ==
    \A t \in Tasks :
        EmbeddingCallFailed(task[t])
          => /\ task[t].embedCalls = Len(task[t].chunks)
             /\ task[t].response.status = 200
             /\ documents[task[t].document_id].status = "completed"

\* C17: in every reachable state every stored chunk references an existing
\* document: a deletion removes the document's chunks, and an ingestion
\* that is still inserting chunks for it stores nothing afterwards.
C17_ChunksReferenceExistingDocuments ==
    \A c \in document_chunks : c.document_id \in DOMAIN documents

\* document 1 was deleted while a request was ingesting it: of its two
\* inserts one was accepted and one refused, and no row is left
C17_Witness ==
    \E t \in Tasks :
        /\ task[t].pc = "done" /\ task[t].document_id = 1
        /\ 1 \notin DOMAIN documents
        /\ task[t].embedCalls = 2 /\ task[t].skipped = {}
        /\ task[t].processedChunks = 2 /\ task[t].rejected = 1
        /\ \A c \in document_chunks : c.document_id # 1
        /\ \E c \in document_chunks : c.document_id # 1

\* C20: the only status transitions of a document are processing to
\* completed and processing to failed: a completed document never becomes
\* failed and a failed document never becomes completed, whatever requests
\* are made for it.  (Refuted: the handler never reads the status.)
C20_TerminalStatuses ==
    [][\A d \in DOMAIN documents \cap DOMAIN documents' :
         /\ documents[d].status = "completed" => documents'[d].status = "completed"
         /\ documents[d].status = "failed" => documents'[d].status = "failed"]_vars

(***************************************************************************)
(* Knowledge source resolution and search properties.                      *)
(***************************************************************************)
\* rag-chat found the conversation of the request
ConversationFound == Resolved /\ query.conversation_id \in DOMAIN conversations

HasAgent ==
    ConversationFound /\ conversations[query.conversation_id].agent_id \in DOMAIN agents

HasContext ==
    ConversationFound
    /\ conversations[query.conversation_id].context_id \in DOMAIN contexts

\* the context step of rag-chat replaced the prompt layer
ContextPromptApplies ==
    /\ HasContext /\ query.ragEnabledForConversation
    /\ BoundAgent.document_ids = <<>>
    /\ BoundContext.system_prompt # NoPrompt

\* C21: in rag-chat, when the conversation has an agent, the effective
\* rag_enabled flag is the agent's, whatever the conversation's flag and the
\* flag of the request, and the agent's system_prompt is the prompt layer
\* (until the context step replaces it).
C21_AgentFlagAndPromptWin ==
    HasAgent
      => /\ query.ragEnabledForConversation = BoundAgent.rag_enabled
         /\ query.systemPrompt = IF ContextPromptApplies
                                 THEN BoundContext.system_prompt
                                 ELSE BoundAgent.system_prompt

\* the agent enables RAG while the conversation and the request disable it
C21_Witness ==
    /\ HasAgent /\ query.pc = "done" /\ query.response.status = 200
    /\ BoundAgent.rag_enabled
    /\ ~conversations[query.conversation_id].rag_enabled
    /\ query.rag_enabled = "false"
    /\ query.ragEnabledForConversation
    /\ query.systemPrompt = BoundAgent.system_prompt
    /\ query.finalSystemPrompt.base = BoundAgent.system_prompt

\* the documents and the prompt layer after the agent step of rag-chat
AgentStepDocuments == IF HasAgent THEN BoundAgent.document_ids ELSE <<>>
AgentStepPrompt == IF HasAgent THEN BoundAgent.system_prompt ELSE DefaultPrompt

\* C22: in rag-chat, when the documents are empty after the agent step and
\* the conversation has a context, the documents become the context's
\* document_ids and a present context system_prompt replaces the prompt
\* layer, whatever the value of rag_enabled.  (Refuted: with RAG disabled
\* the context is not read.)
C22_ContextStepWhateverRagEnabled ==
    (HasContext /\ AgentStepDocuments = <<>>)
      => /\ query.systemPrompt = IF BoundContext.system_prompt # NoPrompt
                                 THEN BoundContext.system_prompt
                                 ELSE AgentStepPrompt
         /\ BoundContext.document_ids # <<>>
              => query.documentIds = BoundContext.document_ids

\* the rows of a list are pairwise different
NoDuplicates(ids) == Cardinality(Range(ids)) = Len(ids)

\* gemini-realtime entered its RAG block for a conversation it found
VoiceConversationFound ==
    /\ query.handler = "gemini-realtime" /\ query.pc \in {"fetch", "done"}
    /\ query.rag_enabled = "true" /\ query.caller \in Users
    /\ query.conversation_id \in DOMAIN conversations

\* C23: in gemini-realtime, when the agent's document_ids is non-empty the
\* resolved documents are exactly the agent's, context documents are used
\* only when the agent yields none, and no document id occurs twice.
\* (Refuted: the handler appends the context's documents to the agent's.)
C23_VoicePrecedenceWithoutDuplicates ==
    VoiceConversationFound
      => /\ NoDuplicates(query.documentIds)
         /\ (/\ conversations[query.conversation_id].agent_id \in DOMAIN agents
             /\ BoundAgent.document_ids # <<>>)
              => query.documentIds = BoundAgent.document_ids

\* the similarity search of the request ran and answered
SearchAnswered ==
    /\ query.handler \in {"rag-chat", "chat-search"}
    /\ query.searchCalls = 1 /\ ~query.rpcError

\* the stored chunks of the resolved documents above the threshold that
\* are not among the results
LeftOut ==
    { c \in document_chunks :
        /\ c.document_id \in Range(query.documentIds)
        /\ AboveThreshold(Similarity(c.embedding, query.query_embedding))
        /\ \A i \in 1..Len(query.chunks) : c \notin StoredAs(query.chunks[i]) }

C25_ProgressMonotoneAndBounded ==
    /\ [](\A d \in DOMAIN documents :
            /\ documents[d].processing_progress \in 0..100
            /\ documents[d].status = "completed"
                 => documents[d].processing_progress = 100)
    /\ [][\A d \in DOMAIN documents \cap DOMAIN documents' :
            documents'[d].processing_progress >= documents[d].processing_progress]_vars

\* two of three chunks are stored and the progress written is 67
C25_Witness ==
    \E t \in Tasks :
        /\ task[t].pc = "embed" /\ task[t].i = 3 /\ Len(task[t].chunks) = 3
        /\ task[t].processedChunks = 2
        /\ documents[task[t].document_id].processing_progress = 67
        /\ documents[task[t].document_id].status = "processing"

\* the ingestion broke off in the embedding loop, its failure update
\* reached the row and every insert before was accepted
BrokeOffInLoop(r) ==
    /\ r.pc = "done" /\ r.document_id \in DocIds
    /\ r.broken /\ r.failWrite = "ok" /\ r.rejected = 0

\* C26: when an ingestion fails after some chunks were persisted, those
\* chunks stay in the chunk store while the document is failed, and the
\* failure update changes only status and error_message:
\* processing_progress keeps the last value written.
C26_NoRollbackOnFailure ==
    \A t \in Tasks :
        LET r == task[t]
            d == r.document_id
        IN  BrokeOffInLoop(r)
              => /\ documents[d].status = "failed"
                 /\ documents[d].error_message = r.error
                 /\ documents[d].processing_progress =
                      IF r.processedChunks = 0 THEN 0
                      ELSE Progress(r.processedChunks, Len(r.chunks))
                 /\ Cardinality(RowsBy(t)) = r.processedChunks
                 /\ { c.content : c \in RowsBy(t) }
                      = { r.chunks[k] : k \in (1..(r.i - 1)) \ r.skipped }

\* the third embedding call threw after two chunks were stored
C26_Witness ==
    \E t \in Tasks :
        /\ BrokeOffInLoop(task[t])
        /\ task[t].i = 3 /\ task[t].processedChunks = 2
        /\ Cardinality(RowsBy(t)) = 2
        /\ documents[task[t].document_id].status = "failed"
        /\ documents[task[t].document_id].processing_progress = 67

\* no other request names the document of request t
Alone(t) ==
    \A u \in Tasks \ {t} : task[u].document_id # task[t].document_id

\* C27: within one ingestion the chunks are handled one at a time in
\* document order: the embedding request for chunk i is the i-th request of
\* the task, and it is issued only after each chunk before i was skipped or
\* was persisted with its progress update written.
C27_OneChunkAtATime ==
    \A t \in Tasks :
        LET r == task[t]
            d == r.document_id
        IN  r.pc \in {"embed", "insert", "progress"}
              => /\ r.i \in 1..Len(r.chunks)
                 /\ r.embedCalls = IF r.pc = "embed" THEN r.i - 1 ELSE r.i
                 /\ r.skipped \subseteq 1..(r.i - 1)
                 /\ r.processedChunks + Cardinality(r.skipped)
                      = IF r.pc = "progress" THEN r.i ELSE r.i - 1
                 /\ (r.pc # "progress" /\ r.processedChunks > 0 /\ Alone(t))
                      => documents[d].processing_progress
                           = Progress(r.processedChunks, Len(r.chunks))
                 /\ (r.rejected = 0)
                      => { c.content : c \in RowsBy(t) }
                           = { r.chunks[k] :
                                 k \in (1..(IF r.pc = "progress" THEN r.i ELSE r.i - 1))
                                         \ r.skipped }

\* the third request is about to be issued: the first chunk was persisted
\* and its progress written, the second was skipped
C27_Witness ==
    \E t \in Tasks :
        /\ task[t].pc = "embed" /\ task[t].i = 3 /\ task[t].embedCalls = 2
        /\ task[t].skipped = {2} /\ task[t].processedChunks = 1
        /\ Alone(t)
        /\ documents[task[t].document_id].processing_progress = 33
        /\ Cardinality(RowsBy(t)) = 1

ChunksOf(d) == { c \in document_chunks : c.document_id = d }

\* what request t alone leaves in the row of its document
StatusLeftBy(r) ==
    IF r.error = NoError THEN "completed"
    ELSE IF r.failWrite = "ok" THEN "failed" ELSE "processing"

ProgressLeftBy(r) ==
    IF r.error = NoError THEN 100
    ELSE IF r.processedChunks = 0 THEN 0
    ELSE Progress(r.processedChunks, Len(r.chunks))

\* a step of a request whose document is d
StepOfIngestionOf(d) ==
    \E t \in Tasks : task'[t] # task[t] /\ task[t].document_id = d

\* C28: ingestions of different documents are independent: a documents row
\* is written, and chunks of a document are added, only by a request for
\* that document, and when the request for a document has ended with no
\* other request naming it, the document's status, progress and chunks are
\* those the request's own course determines.
C28_DifferentDocumentsIndependent ==
    /\ [][/\ \A d \in DOMAIN documents \cap DOMAIN documents' :
               documents'[d] # documents[d] => StepOfIngestionOf(d)
          /\ \A c \in document_chunks' \ document_chunks :
               StepOfIngestionOf(c.document_id)]_vars
    /\ [](\A t \in Tasks :
            LET r == task[t]
                d == r.document_id
            IN  (r.pc = "done" /\ d \in DOMAIN documents /\ Alone(t))
                  => /\ documents[d].status = StatusLeftBy(r)
                     /\ documents[d].processing_progress = ProgressLeftBy(r)
                     /\ ChunksOf(d) = RowsBy(t)
                     /\ Cardinality(RowsBy(t)) = r.processedChunks - r.rejected
                     /\ r.rejected = 0
                          => { c.content : c \in RowsBy(t) }
                               = { r.chunks[k] : k \in (1..(r.i - 1)) \ r.skipped })

\* two requests for two documents have both ended, one completed with both
\* chunks, one failed after its first chunk
C28_Witness ==
    \E t, u \in Tasks :
        /\ task[t].pc = "done" /\ task[u].pc = "done"
        /\ task[t].document_id \in DOMAIN documents
        /\ task[u].document_id \in DOMAIN documents
        /\ task[t].document_id # task[u].document_id
        /\ documents[task[t].document_id].status = "completed"
        /\ Cardinality(ChunksOf(task[t].document_id)) = 2
        /\ documents[task[u].document_id].status = "failed"
        /\ documents[task[u].document_id].processing_progress = 50
        /\ Cardinality(ChunksOf(task[u].document_id)) = 1

\* C29: ingestion of the same document is not guarded: a request is turned
\* away as "Document not found" only when the row does not exist, and each
\* request numbers and stores its rows on its own, whatever rows the
\* document already has; so a document can hold more than ceil(L/C) chunks,
\* several of them with the same chunk_index.
C29_SameDocumentNotGuarded ==
    \A t \in Tasks :
        LET r == task[t]
        IN  /\ r.error = "Document not found" => r.document_id \notin DOMAIN documents
            /\ (r.document_id \in DOMAIN documents /\ r.rejected = 0)
                 => /\ Cardinality(RowsBy(t)) = r.processedChunks
                    /\ { c.chunk_index : c \in RowsBy(t) }
                         = { k - 1 : k \in 1..r.processedChunks }

\* two requests for one document both ran
C29_Witness ==
    \E d \in DOMAIN documents :
        /\ Cardinality(ChunksOf(d)) > (storage[d] + chunkSize - 1) \div chunkSize
        /\ \E c1, c2 \in ChunksOf(d) : c1 # c2 /\ c1.chunk_index = c2.chunk_index
        /\ \A t \in Tasks : task[t].document_id = d /\ task[t].pc = "done"

(***************************************************************************)
(* Query properties: effects on the stored state.                          *)
(***************************************************************************)
\* a step of the rag-chat or the chat-search handler
QueryStep == query' # query /\ query'.handler \in {"rag-chat", "chat-search"}

\* C30: rag-chat and chat-search are read-only: a step of either handler
\* writes nothing to persistent state, documents and chunks included.
\* (Refuted: rag-chat inserts a row into logs on every request.)
C30_QueriesAreReadOnly ==
    [][QueryStep => UNCHANGED <<documents, document_chunks, storage, agents,
                                contexts, conversations, messages, logs>>]_vars

(***************************************************************************)
(* Query properties: the prompt rag-chat sends to the model.               *)
(***************************************************************************)
\* rag-chat ended with RAG enabled and an empty resolved document set
NoDocumentsResolved ==
    /\ Resolved /\ query.pc = "done"
    /\ query.ragEnabledForConversation /\ Len(query.documentIds) = 0

\* C31: in rag-chat, when RAG is enabled and the resolved document set is
\* empty, no embedding call and no similarity search is made; the model is
\* requested (the credential being set) with the prompt layer closed by the
\* note that no documents are available, and the response of a completed
\* request reports rag_used = false.
C31_NoDocumentsAnswersFromModel ==
    NoDocumentsResolved
      => /\ query.embedCalls = 0 /\ query.searchCalls = 0
         /\ query.key \notin {"unset", "empty"}
              => /\ query.modelCalls = 1
                 /\ query.sent[1] =
                      [role |-> "system",
                       content |-> [base |-> query.systemPrompt, passages |-> <<>>,
                                    policy |-> "no-documents"]]
         /\ query.completion = "ok"
              => /\ query.response.status = 200
                 /\ query.response.rag_used = FALSE

\* the user documents fallback found no completed document
C31_Witness ==
    /\ NoDocumentsResolved
    /\ query.fallback = "ok" /\ CompletedDocumentsOf(query.caller) = {}
    /\ query.completion = "ok" /\ query.modelCalls = 1
    /\ query.sent[1].content.policy = "no-documents"
    /\ query.response.rag_used = FALSE

\* rag-chat ended with RAG enabled and at least one chunk retrieved
ChunksRetrieved ==
    /\ Resolved /\ query.pc = "done"
    /\ query.ragEnabledForConversation /\ Len(query.chunks) > 0

\* C32: in rag-chat, when RAG is enabled and at least one chunk is
\* retrieved, the system prompt sent to the model holds the prompt layer, the
\* content of every retrieved chunk in retrieval order, and then the
\* instruction to answer only from the documents (with the fixed not-found
\* sentence); the response of a completed request reports rag_used = true.
C32_RetrievedChunksAreInjected ==
    ChunksRetrieved
      => /\ query.modelCalls = 1
         /\ query.sent[1] =
              [role |-> "system",
               content |-> [base |-> query.systemPrompt,
                            passages |-> [i \in 1..Len(query.chunks) |->
                                            query.chunks[i].content],
                            policy |-> "documents-only"]]
         /\ query.completion = "ok"
              => /\ query.response.status = 200
                 /\ query.response.rag_used = TRUE
                 /\ query.response.response = "assistant message"

\* several chunks were retrieved and the model answered
C32_Witness ==
    /\ ChunksRetrieved
    /\ Len(query.chunks) >= 2
    /\ query.chunks[1].content # query.chunks[2].content
    /\ Len(query.sent[1].content.passages) = Len(query.chunks)
    /\ query.completion = "ok" /\ query.response.rag_used = TRUE

(***************************************************************************)
(* The earlier process-document handler: failures.                         *)
(***************************************************************************)
\* the pipeline threw after the request body was read, for a document that
\* exists
EarlierFailed(r) ==
    /\ r.pc = "done" /\ r.error # NoError
    /\ r.bodyUsed /\ r.document_id \in DOMAIN documents

\* C33: in the earlier handler, when the pipeline throws after the request
\* body was read, the document is updated to status failed with the error's
\* message and the caller receives the 500 response carrying that message;
\* the document is not left in status processing.
\* (Refuted: the catch block reads the body a second time, which rejects
\* before the update.)
C33_EarlierFailureMarksFailed ==
    \A t \in Tasks :
        LET r == task[t]
        IN  EarlierFailed(r)
              => /\ documents[r.document_id].status = "failed"
                 /\ documents[r.document_id].error_message = r.error
                 /\ r.response = [status |-> 500, error |-> r.error]

(***************************************************************************)
(* Ingestion properties: the success response, the row's error_message.    *)
(***************************************************************************)
\* C34: the chunks_processed of a successful ingestion is the number of
\* chunks this ingestion persisted in the chunk store, also when the store
\* rejected an insert.
\* (Refuted: processedChunks is incremented whatever the insert returned.)
C34_ChunksProcessedIsPersisted ==
    \A t \in Tasks :
        (task[t].pc = "done" /\ task[t].response.status = 200)
          => task[t].response.chunks_processed = Cardinality(RowsBy(t))

(***************************************************************************)
(* The chat flow: the message list of a send.                              *)
(***************************************************************************)
\* entry i of the list sent to the model is the new user message: the row
\* handleSend inserted, read back with the history, or the message of the
\* request body, which closes the list
IsNewUserMessage(i) ==
    /\ query.sent[i].role = "user"
    /\ \/ i = Len(query.sent)
       \/ query.sent[i].content = query.client.message_id

\* C35: in the chat flow the new user message appears exactly once in the
\* message list sent to the model.
\* (Refuted: the stored row comes back with the history and the message of
\* the request body is appended after it.)
C35_NewMessageSentOnce ==
    (query.client.pc # "idle" /\ query.modelCalls = 1)
      => Cardinality({ i \in 1..Len(query.sent) : IsNewUserMessage(i) }) = 1

(***************************************************************************)
(* Ingestion properties: status and error_message of a row.                *)
(***************************************************************************)
\* C36: in every reachable state a completed document has no error_message
\* and a failed document has one, also when a failed ingestion is followed
\* by a successful ingestion of the same document.
\* (Refuted: the completion update leaves error_message as it was.)
C36_ErrorMessageMatchesStatus ==
    \A d \in DOMAIN documents :
        /\ documents[d].status = "completed" => documents[d].error_message = NoError
        /\ documents[d].status = "failed" => documents[d].error_message # NoError

(***************************************************************************)
(* Knowledge sources and deletions.                                        *)
(***************************************************************************)
\* C37: in every reachable state the document_ids of every agent and every
\* context hold only ids of existing documents, so a non-empty resolved
\* document set names at least one existing document, also after an owner
\* deleted a document.
\* (Refuted: deleting a document leaves the arrays as they are.)
C37_KnowledgeSourcesNameExistingDocuments ==
    /\ \A a \in DOMAIN agents : Range(agents[a].document_ids) \subseteq DOMAIN documents
    /\ \A c \in DOMAIN contexts : Range(contexts[c].document_ids) \subseteq DOMAIN documents
    /\ \A c \in DOMAIN conversations :
         LET resolved == RagChatResolve(conversations[c], conversations[c].rag_enabled)
         IN  Len(resolved.documentIds) > 0
               => Range(resolved.documentIds) \cap DOMAIN documents # {}

(***************************************************************************)
(* The voice assistant: closing and reconnecting.                          *)
(***************************************************************************)
\* C38: after disconnect() has run because the user closed the assistant,
\* no reconnect timer is pending and no new WebSocket is created, whatever
\* the component was doing when it was called.
\* (Refuted: a call of connectToVoiceAssistant that waits for the
\* microphone or the config creates its socket afterwards, and a socket
\* closed while connecting reports code 1006 and schedules a reconnect.)
C38_NothingAfterDisconnect ==
    /\ [](~voice.isOpen => voice.timers = {})
    /\ [][(~voice.isOpen /\ ~voice'.isOpen)
            => Len(voice'.sockets) = Len(voice.sockets)]_vars

\* the step is the close event of a socket
OnCloseStep == voice' # voice /\ voice'.last = "VoiceOnClose"

====
